---- MODULE Spec2Model ----
(***************************************************************************)
(* Model of the Random Beep background service: the session/timer state    *)
(* machine of background/timer.js, the session record of storage/session.js*)
(* (src/unnamed/part_004), the break scheduler of                          *)
(* background/break-generator.js and the alarm dispatch of                 *)
(* background/background.js.                                               *)
(*                                                                         *)
(* JavaScript runs one handler at a time; a handler gives up control only  *)
(* at an await.  Every action below is one synchronous segment of a        *)
(* handler: from its invocation (or from the completion of the operation   *)
(* it awaited) up to its next await or its return.  A handler suspended at *)
(* an await is an element of the bag tasks.                                *)
(*                                                                         *)
(* Time is in milliseconds, as Date.now().  A null timestamp is 0 (both    *)
(* are falsy in the code's truthiness tests); the clock starts above 0.    *)
(* Session ids are opaque fresh tokens (generateSessionId concatenates the *)
(* clock and a random suffix); an alarm name `${id}_short_break_${i}` or   *)
(* `${id}_long_break` is the record [sid, kind, idx].                      *)
(***************************************************************************)
EXTENDS Integers, Sequences, FiniteSets, Bags, TLC

VARIABLES
  currentSession,   \* timer.js: let currentSession
  timerInterval,    \* timer.js: let timerInterval (TRUE = an interval is armed)
  tickDue,          \* earliest time the armed interval fires next
  alarms,           \* chrome.alarms: set of [sid, kind, idx, when]
  inbox,            \* alarm event being dispatched: names still to be handed to a listener
  listeners,        \* number of chrome.alarms.onAlarm listeners registered
  tasks,            \* bag of handlers suspended at an await
  timeouts,         \* pending setTimeout callbacks: bag of [kind, due, sid]
  stored,           \* chrome.storage.local currentSession (<<>> when absent, else <<session>>)
  statsLog,         \* updateStatistics calls issued: sequence of [sid, focus, short, long]
  notifications,    \* notifications shown: [short, long] counters
  settings,         \* the settings loadSettings resolves with
  now,              \* Date.now()
  nextId,           \* next fresh session id
  requests,         \* messages and notification clicks received so far
  statistics,       \* chrome.storage.sync statistics: [dailyFocus, weeklyFocus]
  statsCalls,       \* bag of updateStatistics calls suspended at await loadStatistics
  today,            \* the day of the calendar (getTodayString), as a day number
  statsIssued,      \* updateStatistics calls made so far
  storedSettings,   \* chrome.storage.sync settings: the stored object, values of any type
  response,         \* the last response sent to a start, pause, resume or reset request
  writeFailures,    \* saveSessionState calls rejected so far
  strayIntervals    \* due times of the armed intervals timerInterval no longer refers to

\* The session, timer and alarm state
coreVars == <<currentSession, timerInterval, tickDue, alarms, inbox, listeners, tasks,
              timeouts, stored, statsLog, notifications, settings, now, nextId, requests>>

\* The state of the storage modules followed on their own
storageVars == <<statistics, statsCalls, today, statsIssued, storedSettings, response,
                 writeFailures>>

otherVars == <<storageVars, strayIntervals>>

vars == <<coreVars, otherVars>>

----------------------------------------------------------------------------
(* Bounds of the model *)

MaxSessionId == 3
MaxTasks == 2          \* handlers suspended at an await at the same time
MaxRequests == 3       \* messages and notification clicks received in one behaviour
MaxScheduleStarts == 1 \* start requests of a behaviour that examines break scheduling

----------------------------------------------------------------------------
(* Program constants *)

TIMER_UPDATE_INTERVAL == 1000
MinBreakOffsetMs == 30000
FailsafeGraceSeconds == 5
MaxShortBreakSeconds == 60
MaxBreaks == 12

\* The settings the model runs with; every value is inside the range
\* validateSettings accepts (1-60 min, 5-60 s, 15-240 min, 1-60 min).
SettingsSpace ==
  [shortPeriodDuration : {1}, shortBreakDuration : {60},
   longPeriodDuration : {15}, longBreakDuration : {20},
   autoStartNextSession : BOOLEAN]

----------------------------------------------------------------------------
(* storage/session.js *)

createNewSession(id, t) ==
  [id |-> id, startTime |-> t, stateStartTime |-> t,
   shortBreaksTaken |-> << >>, shortBreakCount |-> 0,
   state |-> "idle", elapsedTime |-> 0,
   pauseStartTime |-> 0, totalPausedTime |-> 0]

\* A faulty variant of updateSessionState: the updated record is built from
\* a new session instead of a copy of the old one, so it gets a new id
updateSessionState_FromNewSession(session, newState, t) ==
  IF newState = session.state THEN session
  ELSE [createNewSession(session.id + 1, t) EXCEPT
          !.state = newState, !.elapsedTime = session.elapsedTime,
          !.shortBreakCount = session.shortBreakCount,
          !.shortBreaksTaken = session.shortBreaksTaken]

\* A faulty variant of updateSessionState: leaving the pause clears
\* pauseStartTime but does not add the pause to totalPausedTime
updateSessionState_PauseNotCounted(session, newState, t) ==
  IF newState = session.state THEN session
  ELSE [session EXCEPT
          !.state = newState, !.stateStartTime = t,
          !.pauseStartTime = IF newState = "paused" /\ session.state = "active" THEN t ELSE 0]

updateSessionState(session, newState, t) ==
  IF newState = session.state THEN session
  ELSE LET u == IF newState = "paused" /\ session.state = "active"
                  THEN [session EXCEPT !.pauseStartTime = t]
                ELSE IF newState = "active" /\ session.state = "paused"
                          /\ session.pauseStartTime # 0
                  THEN [session EXCEPT
                          !.totalPausedTime = @ + (t - session.pauseStartTime),
                          !.pauseStartTime = 0]
                ELSE session
       IN [u EXCEPT !.state = newState, !.stateStartTime = t]

\* A faulty variant of recordShortBreak: the break is counted but its
\* timestamp is not appended
recordShortBreak_NoTimestamp(session, t) ==
  [session EXCEPT !.shortBreakCount = @ + 1, !.state = "shortBreak", !.stateStartTime = t]

recordShortBreak(session, t) ==
  updateSessionState(
    [session EXCEPT !.shortBreaksTaken = Append(@, t), !.shortBreakCount = @ + 1],
    "shortBreak", t)

----------------------------------------------------------------------------
(* background/break-generator.js *)

\* A faulty variant of the alarm names: the short-break alarms are numbered
\* from 1
AlarmName_IndexFromOne(a) ==
  [sid |-> a.sid, kind |-> a.kind,
   idx |-> IF a.kind = "short_break" THEN a.idx + 1 ELSE a.idx]

AlarmName(a) == [sid |-> a.sid, kind |-> a.kind, idx |-> a.idx]

\* alarm.name.startsWith(sessionId)
NameStartsWith(name, id) == name.sid = id

isShortBreakAlarm(name) == name.kind = "short_break"

isLongBreakAlarm(name) == name.kind = "long_break"

\* clearSessionAlarms: the alarms left once those of sessionId are cleared
clearSessionAlarms(as, sessionId) == {a \in as : ~NameStartsWith(AlarmName(a), sessionId)}

Min(a, b) == IF a < b THEN a ELSE b

Max(a, b) == IF a > b THEN a ELSE b

\* A faulty variant of the break count: the cap of 12 is missing
numberOfBreaks_NoCap(periodMinutes) == Max(1, periodMinutes \div 5)

numberOfBreaks(periodMinutes) == Min(Max(1, periodMinutes \div 5), MaxBreaks)

RECURSIVE SortInsert(_, _)
SortInsert(s, x) ==
  IF s = << >> THEN <<x>>
  ELSE IF x < Head(s) THEN <<x>> \o s
  ELSE <<Head(s)>> \o SortInsert(Tail(s), x)

RECURSIVE SortAscending(_)
SortAscending(s) ==
  IF s = << >> THEN << >> ELSE SortInsert(SortAscending(Tail(s)), Head(s))

\* A faulty variant of generateRandomBreakTimes: the break times are not
\* clamped to [start + 30 s, end - 30 s]
generateRandomBreakTimes_NoClamp(periodMinutes, startTimeMs, rnd) ==
  LET n == Min(Max(1, periodMinutes \div 5), MaxBreaks)
      segmentMs == (periodMinutes * 60 * 1000) \div (n + 1)
  IN [i \in 1..n |-> startTimeMs + ((2 * i - 1) * segmentMs) \div 2
                        + ((rnd[i] - 500) * 3 * segmentMs) \div 10000]

\* A faulty variant of generateRandomBreakTimes: the random offset spans
\* the whole segment (plus or minus 50%) instead of 30% of it
generateRandomBreakTimes_WideOffsets(periodMinutes, startTimeMs, rnd) ==
  LET periodSeconds == periodMinutes * 60
      endTimeMs == startTimeMs + periodSeconds * 1000
      n == numberOfBreaks(periodMinutes)
      segmentMs == (periodSeconds * 1000) \div (n + 1)
      breakTime(i) ==
        LET segmentStart == startTimeMs + ((2 * i - 1) * segmentMs) \div 2
            randomOffset == ((rnd[i] - 500) * 10 * segmentMs) \div 10000
        IN Max(startTimeMs + MinBreakOffsetMs,
               Min(endTimeMs - MinBreakOffsetMs, segmentStart + randomOffset))
  IN SortAscending([i \in 1..n |-> breakTime(i)])

\* rnd[i] in 0..999 stands for Math.random() = rnd[i]/1000 in iteration i;
\* the code computes in floating point, the model rounds each product to a
\* whole millisecond
generateRandomBreakTimes(periodMinutes, startTimeMs, rnd) ==
  LET periodSeconds == periodMinutes * 60
      endTimeMs == startTimeMs + periodSeconds * 1000
      n == numberOfBreaks(periodMinutes)
      segmentMs == (periodSeconds * 1000) \div (n + 1)
      breakTime(i) ==
        LET segmentStart == startTimeMs + ((2 * i - 1) * segmentMs) \div 2
            randomOffset == ((rnd[i] - 500) * 3 * segmentMs) \div 10000
        IN Max(startTimeMs + MinBreakOffsetMs,
               Min(endTimeMs - MinBreakOffsetMs, segmentStart + randomOffset))
  IN SortAscending([i \in 1..n |-> breakTime(i)])

RandomSamples == {0, 999}

\* The draws of one call: every break takes the same sample, or the samples
\* alternate, so that each break and each pair of neighbours meets the
\* extreme offsets
RandomChoices(n) ==
  {[i \in 1..n |-> IF i % 2 = 1 THEN a ELSE b] : a \in RandomSamples, b \in RandomSamples}

\* scheduleRandomBreaks after its awaits: the alarms once the session's
\* short-break alarms and its long-break alarm are created
scheduleAlarms(as, sessionId, sessionStartTime, st, rnd, t) ==
  LET startTime == IF sessionStartTime # 0 THEN sessionStartTime ELSE t
      breakTimes == generateRandomBreakTimes(st.shortPeriodDuration, startTime, rnd)
      shorts == {[sid |-> sessionId, kind |-> "short_break", idx |-> i - 1,
                  when |-> breakTimes[i]] : i \in 1..Len(breakTimes)}
      long == [sid |-> sessionId, kind |-> "long_break", idx |-> 0,
               when |-> startTime + st.longPeriodDuration * 60 * 1000]
  IN {b \in as : AlarmName(b) \notin ({AlarmName(s) : s \in shorts} \cup {AlarmName(long)})}
       \cup shorts \cup {long}

\* A faulty variant of the registration loop: the first failure ends the
\* loop, and the long-break alarm is not created either
scheduleAlarmsFailing_Aborts(as, sessionId, sessionStartTime, st, rnd, t, failed) ==
  LET all == scheduleAlarms({}, sessionId, sessionStartTime, st, rnd, t)
      created == {a \in all : a.kind = "short_break" /\ a.idx < failed}
  IN {b \in as : AlarmName(b) \notin {AlarmName(a) : a \in created}} \cup created

\* scheduleRandomBreaks when chrome.alarms.create throws for one alarm:
\* failed is the position of that alarm in the order of creation, the
\* short breaks 0 .. n-1 and then the long break (position n). Each create
\* sits in its own try/catch, so every other alarm is created
scheduleAlarmsFailing(as, sessionId, sessionStartTime, st, rnd, t, failed) ==
  LET all == scheduleAlarms({}, sessionId, sessionStartTime, st, rnd, t)
      n == numberOfBreaks(st.shortPeriodDuration)
      created == {a \in all : IF a.kind = "short_break" THEN a.idx # failed ELSE failed # n}
  IN {b \in as : AlarmName(b) \notin {AlarmName(a) : a \in created}} \cup created

----------------------------------------------------------------------------
(* Handlers suspended at an await *)

\* h: the entry point (message, alarm, timeout, interval) the handler was
\* invoked through; fn: the function of timer.js whose await it is suspended
\* at; pc: that await; from, fromId: the live session's state when the
\* entry point was invoked and the session id the entry point carries;
\* arg, start: the sessionId and sessionStartTime arguments of
\* clearSessionAlarms / scheduleRandomBreaks.
\* A handler whose last await is followed by nothing but its return (the
\* saveSessionState of pause, resume, reset, start and endShortBreak, the
\* updateStatistics of the interval callback) is not kept: its completion
\* changes nothing.
Task(h, fn, pc, from, fromId, arg, start) ==
  [h |-> h, fn |-> fn, pc |-> pc, from |-> from, fromId |-> fromId,
   arg |-> arg, start |-> start]

Suspend(t) == tasks (+) SetToBag({t})

Finish(t) == tasks (-) SetToBag({t})

Replace(t, u) == (tasks (-) SetToBag({t})) (+) SetToBag({u})

Suspended == BagToSet(tasks)

CanSuspend == BagCardinality(tasks) < MaxTasks

\* No alarm event is being dispatched to the listeners
Idle == inbox = << >>

ShortBreakSeconds == settings.shortBreakDuration

LongBreakMinutes == settings.longBreakDuration

----------------------------------------------------------------------------
(* background/timer.js: the message handlers *)

\* startSession up to its first await (clearSessionAlarms of the session
\* it replaces); also the tail of endLongBreak when autoStartNextSession
startSessionCall(h, from, fromId) ==
  Task(h, "startSession", "clear", from, fromId, currentSession.id, 0)

\* resetSession up to its first await
resetSessionCall(h, from, fromId) ==
  Task(h, "resetSession", "clear", from, fromId, currentSession.id, 0)

\* A faulty variant of startTimerUpdates: the interval that is armed is
\* not cleared and goes on firing
startTimerUpdates_KeepsRunning(handle, due, strays) ==
  IF handle THEN Append(strays, due) ELSE strays

\* The intervals left without a reference by startTimerUpdates, where
\* handle tells whether timerInterval refers to an interval and due is the
\* time that interval fires next: stopTimerUpdates clears that interval
\* before the new one is set and assigned to timerInterval
startTimerUpdates(handle, due, strays) == strays

\* The armed intervals: 0 is the one timerInterval refers to
ArmedIntervals == (IF timerInterval THEN {0} ELSE {}) \cup DOMAIN strayIntervals

IntervalDue(i) == IF i = 0 THEN tickDue ELSE strayIntervals[i]

\* The interval i has fired and fires again a period later
IntervalFired(i) ==
  IF i = 0
    THEN /\ tickDue' = now + TIMER_UPDATE_INTERVAL
         /\ UNCHANGED strayIntervals
    ELSE /\ strayIntervals' = [strayIntervals EXCEPT ![i] = now + TIMER_UPDATE_INTERVAL]
         /\ UNCHANGED tickDue

StartSession ==
  /\ Idle /\ requests < MaxRequests
  /\ requests' = requests + 1 /\ CanSuspend
  /\ timerInterval' = FALSE
  /\ tasks' = Suspend(startSessionCall("startSession", currentSession.state, currentSession.id))
  /\ UNCHANGED <<currentSession, tickDue, alarms, inbox, listeners, timeouts, stored,
                 statsLog, notifications, settings, now, nextId>>
  /\ UNCHANGED otherVars

\* clearSessionAlarms resolved: the new session is created and made
\* active; scheduleRandomBreaks is called and awaits loadSettings and
\* clearSessionAlarms
StartSessionCreate(t) ==
  /\ Idle
  /\ t \in Suspended /\ t.fn = "startSession" /\ t.pc = "clear"
  /\ nextId <= MaxSessionId
  /\ alarms' = clearSessionAlarms(alarms, t.arg)
  /\ currentSession' = updateSessionState(createNewSession(nextId, now), "active", now)
  /\ nextId' = nextId + 1
  /\ tasks' = Replace(t, [t EXCEPT !.pc = "schedule", !.arg = nextId, !.start = now])
  /\ UNCHANGED <<timerInterval, tickDue, inbox, listeners, timeouts, stored, statsLog,
                 notifications, settings, now, requests>>
  /\ UNCHANGED otherVars

\* scheduleRandomBreaks after its awaits: the alarms are created; back in
\* startSession the interval is armed and the live session is written
StartSessionSchedule(t) ==
  /\ Idle
  /\ t \in Suspended /\ t.fn = "startSession" /\ t.pc = "schedule"
  /\ \E rnd \in RandomChoices(numberOfBreaks(settings.shortPeriodDuration)) :
       alarms' = scheduleAlarms(clearSessionAlarms(alarms, t.arg), t.arg, t.start,
                                settings, rnd, now)
  /\ timerInterval' = TRUE
  /\ tickDue' = now + TIMER_UPDATE_INTERVAL
  /\ stored' = <<currentSession>>
  /\ tasks' = Finish(t)
  /\ UNCHANGED <<currentSession, inbox, listeners, timeouts, statsLog, notifications,
                 settings, now, nextId, requests>>
  /\ strayIntervals' = startTimerUpdates(timerInterval, tickDue, strayIntervals)
  /\ UNCHANGED storageVars

\* The same continuation when the creation of one alarm throws: the
\* error is caught inside scheduleRandomBreaks, which returns normally
StartSessionScheduleFailing(t) ==
  /\ Idle
  /\ t \in Suspended /\ t.fn = "startSession" /\ t.pc = "schedule"
  /\ \E rnd \in RandomChoices(numberOfBreaks(settings.shortPeriodDuration)) :
       \E failed \in 0..numberOfBreaks(settings.shortPeriodDuration) :
         alarms' = scheduleAlarmsFailing(clearSessionAlarms(alarms, t.arg), t.arg, t.start,
                                         settings, rnd, now, failed)
  /\ timerInterval' = TRUE
  /\ tickDue' = now + TIMER_UPDATE_INTERVAL
  /\ stored' = <<currentSession>>
  /\ tasks' = Finish(t)
  /\ UNCHANGED <<currentSession, inbox, listeners, timeouts, statsLog, notifications,
                 settings, now, nextId, requests>>
  /\ strayIntervals' = startTimerUpdates(timerInterval, tickDue, strayIntervals)
  /\ UNCHANGED storageVars

pauseSessionGuard(session) == session.state = "active"

PauseSession ==
  /\ Idle /\ requests < MaxRequests
  /\ requests' = requests + 1
  /\ IF ~pauseSessionGuard(currentSession)
       THEN UNCHANGED <<currentSession, timerInterval, stored>>
       ELSE /\ currentSession' = updateSessionState(currentSession, "paused", now)
            /\ timerInterval' = FALSE
            /\ stored' = <<currentSession'>>
  /\ UNCHANGED <<tickDue, alarms, inbox, listeners, tasks, timeouts, statsLog,
                 notifications, settings, now, nextId>>
  /\ UNCHANGED otherVars

resumeSessionGuard(session) == session.state = "paused"

ResumeSession ==
  /\ Idle /\ requests < MaxRequests
  /\ requests' = requests + 1
  /\ IF ~resumeSessionGuard(currentSession)
       THEN UNCHANGED <<currentSession, timerInterval, tickDue, stored, strayIntervals>>
       ELSE /\ currentSession' = updateSessionState(currentSession, "active", now)
            /\ strayIntervals' = startTimerUpdates(timerInterval, tickDue, strayIntervals)
            /\ timerInterval' = TRUE
            /\ tickDue' = now + TIMER_UPDATE_INTERVAL
            /\ stored' = <<currentSession'>>
  /\ UNCHANGED <<alarms, inbox, listeners, tasks, timeouts, statsLog, notifications,
                 settings, now, nextId>>
  /\ UNCHANGED storageVars

ResetSession ==
  /\ Idle /\ requests < MaxRequests
  /\ requests' = requests + 1 /\ CanSuspend
  /\ timerInterval' = FALSE
  /\ tasks' = Suspend(resetSessionCall("resetSession", currentSession.state, currentSession.id))
  /\ UNCHANGED <<currentSession, tickDue, alarms, inbox, listeners, timeouts, stored,
                 statsLog, notifications, settings, now, nextId>>
  /\ UNCHANGED otherVars

\* clearSessionAlarms resolved: the session is replaced by a new idle one
\* and written
ResetSessionCreate(t) ==
  /\ Idle
  /\ t \in Suspended /\ t.fn = "resetSession" /\ t.pc = "clear"
  /\ nextId <= MaxSessionId
  /\ alarms' = clearSessionAlarms(alarms, t.arg)
  /\ currentSession' = createNewSession(nextId, now)
  /\ nextId' = nextId + 1
  /\ stored' = <<currentSession'>>
  /\ tasks' = Finish(t)
  /\ UNCHANGED <<timerInterval, tickDue, inbox, listeners, timeouts, statsLog,
                 notifications, settings, now, requests>>
  /\ UNCHANGED otherVars

----------------------------------------------------------------------------
(* background/background.js: the alarm listeners; timer.js: handleAlarm *)

\* A faulty variant of the session check of handleAlarm: the alarm's name
\* is not compared with the live session's id
AlarmIsForSession_NoIdCheck(name, session) == TRUE

\* A faulty variant of the state check of handleAlarm: a paused session
\* is treated like an active one
SessionIsActive_OrPaused(session) == session.state \in {"active", "paused"}

\* What handleAlarm decides before its first await
AlarmIsForSession(name, session) == NameStartsWith(name, session.id)

SessionIsActive(session) == session.state = "active"

AlarmStartsBreak(name, session) ==
  AlarmIsForSession(name, session) /\ SessionIsActive(session)

\* The handlers one firing of alarm a leaves suspended: every listener
\* calls handleAlarm in turn, within one event dispatch
Spawned(a) ==
  IF ~AlarmStartsBreak(AlarmName(a), currentSession) THEN 0
  ELSE IF isShortBreakAlarm(AlarmName(a)) THEN 1
  ELSE listeners

\* chrome.alarms fires a one-shot alarm at its time and removes it
FireAlarm(a) ==
  /\ Idle
  /\ a \in alarms /\ a.when <= now
  /\ BagCardinality(tasks) + Spawned(a) <= MaxTasks
  /\ alarms' = alarms \ {a}
  /\ inbox' = [i \in 1..listeners |-> AlarmName(a)]
  /\ UNCHANGED <<currentSession, timerInterval, tickDue, listeners, tasks, timeouts, stored,
                 statsLog, notifications, settings, now, nextId, requests>>
  /\ UNCHANGED otherVars

\* A call of updateStatistics; sid is the session the calling handler was
\* invoked for
StatsCall(sid, focus, short, long) ==
  [sid |-> sid, focus |-> focus, short |-> short, long |-> long]

\* handleAlarm up to its first await, for the next listener of the dispatch
HandleAlarm ==
  /\ inbox # << >>
  /\ inbox' = Tail(inbox)
  /\ LET name == Head(inbox) IN
       IF ~AlarmStartsBreak(name, currentSession)
         THEN UNCHANGED <<currentSession, timerInterval, tasks, statsLog>>
       ELSE IF isShortBreakAlarm(name)
         THEN \* startShortBreak up to await showNotification
              /\ currentSession' = recordShortBreak(currentSession, now)
              /\ tasks' = Suspend(Task("alarm", "startShortBreak", "notify",
                                       currentSession.state, name.sid, 0, 0))
              /\ UNCHANGED <<timerInterval, statsLog>>
       ELSE IF isLongBreakAlarm(name)
         THEN \* startLongBreak up to the await in updateSessionStatistics
              /\ timerInterval' = FALSE
              /\ statsLog' = Append(statsLog,
                   StatsCall(name.sid, currentSession.elapsedTime,
                             currentSession.shortBreakCount, 1))
              /\ tasks' = Suspend(Task("alarm", "startLongBreak", "stats",
                                       currentSession.state, name.sid, 0, 0))
              /\ UNCHANGED currentSession
       ELSE UNCHANGED <<currentSession, timerInterval, tasks, statsLog>>
  /\ UNCHANGED <<tickDue, alarms, listeners, timeouts, stored, notifications, settings,
                 now, nextId, requests>>
  /\ UNCHANGED otherVars

\* showNotification resolved: updateStatistics(0, 1, 0) is called
ShortBreakNotified(t) ==
  /\ Idle
  /\ t \in Suspended /\ t.fn = "startShortBreak" /\ t.pc = "notify"
  /\ notifications' = [notifications EXCEPT !.short = @ + 1]
  /\ statsLog' = Append(statsLog, StatsCall(t.fromId, 0, 1, 0))
  /\ tasks' = Replace(t, [t EXCEPT !.pc = "stats"])
  /\ UNCHANGED <<currentSession, timerInterval, tickDue, alarms, inbox, listeners, timeouts,
                 stored, settings, now, nextId, requests>>
  /\ UNCHANGED otherVars

\* updateStatistics resolved: the live session is written; the handler
\* then awaits saveSessionState and loadSettings
ShortBreakSave(t) ==
  /\ Idle
  /\ t \in Suspended /\ t.fn = "startShortBreak" /\ t.pc = "stats"
  /\ stored' = <<currentSession>>
  /\ tasks' = Replace(t, [t EXCEPT !.pc = "settings"])
  /\ UNCHANGED <<currentSession, timerInterval, tickDue, alarms, inbox, listeners, timeouts,
                 statsLog, notifications, settings, now, nextId, requests>>
  /\ UNCHANGED otherVars

Timeout(kind, due, sid) == [kind |-> kind, due |-> due, sid |-> sid]

\* loadSettings resolved: the two break-end timeouts are armed
ShortBreakArm(t) ==
  /\ Idle
  /\ t \in Suspended /\ t.fn = "startShortBreak" /\ t.pc = "settings"
  /\ timeouts' = timeouts
       (+) SetToBag({Timeout("shortBreakEnd", now + ShortBreakSeconds * 1000, t.fromId)})
       (+) SetToBag({Timeout("shortBreakFailsafe",
                             now + (ShortBreakSeconds + FailsafeGraceSeconds) * 1000, t.fromId)})
  /\ tasks' = Finish(t)
  /\ UNCHANGED <<currentSession, timerInterval, tickDue, alarms, inbox, listeners, stored,
                 statsLog, notifications, settings, now, nextId, requests>>
  /\ UNCHANGED otherVars

\* updateSessionStatistics resolved: the live session goes to longBreak
LongBreakEnter(t) ==
  /\ Idle
  /\ t \in Suspended /\ t.fn = "startLongBreak" /\ t.pc = "stats"
  /\ currentSession' = updateSessionState(currentSession, "longBreak", now)
  /\ tasks' = Replace(t, [t EXCEPT !.pc = "notify"])
  /\ UNCHANGED <<timerInterval, tickDue, alarms, inbox, listeners, timeouts, stored,
                 statsLog, notifications, settings, now, nextId, requests>>
  /\ UNCHANGED otherVars

\* showNotification resolved: the live session is written; the handler
\* then awaits saveSessionState and loadSettings
LongBreakSave(t) ==
  /\ Idle
  /\ t \in Suspended /\ t.fn = "startLongBreak" /\ t.pc = "notify"
  /\ notifications' = [notifications EXCEPT !.long = @ + 1]
  /\ stored' = <<currentSession>>
  /\ tasks' = Replace(t, [t EXCEPT !.pc = "settings"])
  /\ UNCHANGED <<currentSession, timerInterval, tickDue, alarms, inbox, listeners, timeouts,
                 statsLog, settings, now, nextId, requests>>
  /\ UNCHANGED otherVars

\* loadSettings resolved: the long-break end is armed
LongBreakArm(t) ==
  /\ Idle
  /\ t \in Suspended /\ t.fn = "startLongBreak" /\ t.pc = "settings"
  /\ timeouts' = timeouts
       (+) SetToBag({Timeout("longBreakEnd", now + LongBreakMinutes * 60 * 1000, t.fromId)})
  /\ tasks' = Finish(t)
  /\ UNCHANGED <<currentSession, timerInterval, tickDue, alarms, inbox, listeners, stored,
                 statsLog, notifications, settings, now, nextId, requests>>
  /\ UNCHANGED otherVars

----------------------------------------------------------------------------
(* timer.js: the deferred break ends *)

\* The test of the short-break timeouts and of endShortBreak
endShortBreakGuard(session, sid) == session.state = "shortBreak"

\* The test of endLongBreak
endLongBreakGuard(session, sid) == session.state = "longBreak"

\* A short-break timeout (primary or failsafe) fires at its time; sid is
\* the session it was armed for
ShortBreakTimeout(c) ==
  /\ Idle
  /\ BagIn(c, timeouts) /\ c.kind \in {"shortBreakEnd", "shortBreakFailsafe"} /\ c.due <= now
  /\ timeouts' = timeouts (-) SetToBag({c})
  /\ IF endShortBreakGuard(currentSession, c.sid)
       THEN /\ currentSession' = updateSessionState(currentSession, "active", now)
            /\ stored' = <<currentSession'>>
       ELSE UNCHANGED <<currentSession, stored>>
  /\ UNCHANGED <<timerInterval, tickDue, alarms, inbox, listeners, tasks, statsLog,
                 notifications, settings, now, nextId, requests>>
  /\ UNCHANGED otherVars

\* endLongBreak up to await loadSettings; h is its caller, sid the session
\* the caller belongs to
endLongBreakCall(h, sid) ==
  IF endLongBreakGuard(currentSession, sid)
    THEN /\ CanSuspend
         /\ tasks' = Suspend(Task(h, "endLongBreak", "settings",
                                  currentSession.state, sid, 0, 0))
    ELSE UNCHANGED tasks

\* The long-break end timeout fires at its time
LongBreakTimeout(c) ==
  /\ Idle
  /\ BagIn(c, timeouts) /\ c.kind = "longBreakEnd" /\ c.due <= now
  /\ timeouts' = timeouts (-) SetToBag({c})
  /\ endLongBreakCall("longBreakEnd", c.sid)
  /\ UNCHANGED <<currentSession, timerInterval, tickDue, alarms, inbox, listeners, stored,
                 statsLog, notifications, settings, now, nextId, requests>>
  /\ UNCHANGED otherVars

\* background.js handleNotificationClick: the button of a long-break
\* notification
NotificationClick ==
  /\ Idle /\ requests < MaxRequests
  /\ requests' = requests + 1
  /\ notifications.long > 0
  /\ endLongBreakCall("notificationClick", currentSession.id)
  /\ UNCHANGED <<currentSession, timerInterval, tickDue, alarms, inbox, listeners, timeouts,
                 stored, statsLog, notifications, settings, now, nextId>>
  /\ UNCHANGED otherVars

\* loadSettings resolved in endLongBreak: startSession() or resetSession()
\* is called and runs up to its first await
EndLongBreakBranch(t) ==
  /\ Idle
  /\ t \in Suspended /\ t.fn = "endLongBreak" /\ t.pc = "settings"
  /\ timerInterval' = FALSE
  /\ tasks' = Replace(t, IF settings.autoStartNextSession
                           THEN startSessionCall(t.h, t.from, t.fromId)
                           ELSE resetSessionCall(t.h, t.from, t.fromId))
  /\ UNCHANGED <<currentSession, tickDue, alarms, inbox, listeners, timeouts, stored,
                 statsLog, notifications, settings, now, nextId, requests>>
  /\ UNCHANGED otherVars

----------------------------------------------------------------------------
(* timer.js: the interval of startTimerUpdates *)

\* A faulty variant of tickElapsed: the whole seconds since the state began
\* are added at every tick
tickElapsed_AddsStateTime(session, t) ==
  [session EXCEPT !.elapsedTime = @ + (t - session.stateStartTime) \div 1000]

\* The interval callback's update of an active session: one second is added
\* when time has passed since the state began
tickElapsed(session, t) ==
  [session EXCEPT !.elapsedTime = IF t - session.stateStartTime > 0 THEN @ + 1 ELSE @]

\* The interval callback up to await saveSessionState
\* A faulty variant of the interval callback: the session is written
\* before the second is counted
Tick_SavesBeforeCounting ==
  /\ Idle
  /\ \E i \in ArmedIntervals : IntervalDue(i) <= now /\ IntervalFired(i)
  /\ IF currentSession.state = "active"
       THEN /\ CanSuspend
            /\ currentSession' = tickElapsed(currentSession, now)
            /\ stored' = <<currentSession>>
            /\ tasks' = Suspend(Task("tick", "tick", "save",
                                     currentSession.state, currentSession.id, 0, 0))
       ELSE UNCHANGED <<currentSession, stored, tasks>>
  /\ UNCHANGED <<timerInterval, alarms, inbox, listeners, timeouts, statsLog, notifications,
                 settings, now, nextId, requests>>
  /\ UNCHANGED storageVars

Tick ==
  /\ Idle
  /\ \E i \in ArmedIntervals : IntervalDue(i) <= now /\ IntervalFired(i)
  /\ IF currentSession.state = "active"
       THEN /\ CanSuspend
            /\ currentSession' = tickElapsed(currentSession, now)
            /\ stored' = <<currentSession'>>
            /\ tasks' = Suspend(Task("tick", "tick", "save",
                                     currentSession.state, currentSession.id, 0, 0))
       ELSE UNCHANGED <<currentSession, stored, tasks>>
  /\ UNCHANGED <<timerInterval, alarms, inbox, listeners, timeouts, statsLog, notifications,
                 settings, now, nextId, requests>>
  /\ UNCHANGED storageVars

\* saveSessionState resolved in the interval callback
TickSaved(t) ==
  /\ Idle
  /\ t \in Suspended /\ t.fn = "tick" /\ t.pc = "save"
  /\ statsLog' = IF currentSession.elapsedTime % 60 = 0
                   THEN Append(statsLog, StatsCall(t.fromId, 60, 0, 0))
                   ELSE statsLog
  /\ tasks' = Finish(t)
  /\ UNCHANGED <<currentSession, timerInterval, tickDue, alarms, inbox, listeners, timeouts,
                 stored, notifications, settings, now, nextId, requests>>
  /\ UNCHANGED otherVars

----------------------------------------------------------------------------
(* The clock *)

Deadlines == {a.when : a \in alarms} \cup {c.due : c \in BagToSet(timeouts)}

\* Alarms, timeouts and the interval fire at their time, and an awaited
\* storage, alarm or notification call completes before the clock reaches
\* the next deadline: the clock moves to the next deadline once everything
\* that is due has fired and no handler is suspended
AdvanceTime ==
  /\ Idle
  /\ tasks = EmptyBag
  /\ Deadlines # {}
  /\ \A d \in Deadlines : d > now
  /\ \A i \in ArmedIntervals : IntervalDue(i) > now
  /\ now' = CHOOSE d \in Deadlines : \A e \in Deadlines : d <= e
  /\ UNCHANGED <<currentSession, timerInterval, tickDue, alarms, inbox, listeners, tasks,
                 timeouts, stored, statsLog, notifications, settings, nextId, requests>>
  /\ UNCHANGED otherVars

----------------------------------------------------------------------------
(* storage/statistics.js *)

\* Buckets kept by cleanupOldStatistics
MaxDailyBuckets == 30
MaxWeeklyBuckets == 12

\* A day is its number in the calendar: the keys getTodayString builds
\* (YYYY-MM-DD) sort as the days do. getWeekNumber labels the week a day
\* falls in (YYYY-Wnn), seven consecutive days to a label, and the labels
\* sort as the weeks do
getWeekNumber(day) == day \div 7

getDefaultDailyStats ==
  [totalFocusTime |-> 0, shortBreaksTaken |-> 0, longBreaksTaken |-> 0,
   sessionsCompleted |-> 0]

NoBuckets == [k \in {} |-> getDefaultDailyStats]

getDefaultStatistics == [dailyFocus |-> NoBuckets, weeklyFocus |-> NoBuckets]

\* stats.xFocus[key], initialised when not present
Bucket(map, key) == IF key \in DOMAIN map THEN map[key] ELSE getDefaultDailyStats

Put(map, key, val) == [k \in DOMAIN map \cup {key} |-> IF k = key THEN val ELSE map[k]]

\* A faulty variant of addToBucket: every call counts a completed session
addToBucket_AlwaysCompletes(b, focusTime, shortBreaks, longBreaks) ==
  [totalFocusTime |-> b.totalFocusTime + focusTime,
   shortBreaksTaken |-> b.shortBreaksTaken + shortBreaks,
   longBreaksTaken |-> b.longBreaksTaken + longBreaks,
   sessionsCompleted |-> b.sessionsCompleted + 1]

\* The four += of updateStatistics on one bucket
addToBucket(b, focusTime, shortBreaks, longBreaks) ==
  [totalFocusTime |-> b.totalFocusTime + focusTime,
   shortBreaksTaken |-> b.shortBreaksTaken + shortBreaks,
   longBreaksTaken |-> b.longBreaksTaken + longBreaks,
   sessionsCompleted |-> b.sessionsCompleted + (IF longBreaks > 0 THEN 1 ELSE 0)]

\* keys.sort().reverse().slice(0, n): the n greatest keys
Latest(keys, n) == {k \in keys : Cardinality({j \in keys : j > k}) < n}

\* keys.sort().slice(0, n): the n smallest keys
Oldest(keys, n) == {k \in keys : Cardinality({j \in keys : j < k}) < n}

\* A faulty variant of cleanupOldStatistics: the sorted keys are not
\* reversed, so the oldest buckets are the ones kept
cleanupOldStatistics_KeepsOldest(stats) ==
  [dailyFocus |->
     IF Cardinality(DOMAIN stats.dailyFocus) > MaxDailyBuckets
       THEN [k \in Oldest(DOMAIN stats.dailyFocus, MaxDailyBuckets) |-> stats.dailyFocus[k]]
       ELSE stats.dailyFocus,
   weeklyFocus |->
     IF Cardinality(DOMAIN stats.weeklyFocus) > MaxWeeklyBuckets
       THEN [k \in Oldest(DOMAIN stats.weeklyFocus, MaxWeeklyBuckets) |-> stats.weeklyFocus[k]]
       ELSE stats.weeklyFocus]

cleanupOldStatistics(stats) ==
  [dailyFocus |->
     IF Cardinality(DOMAIN stats.dailyFocus) > MaxDailyBuckets
       THEN [k \in Latest(DOMAIN stats.dailyFocus, MaxDailyBuckets) |-> stats.dailyFocus[k]]
       ELSE stats.dailyFocus,
   weeklyFocus |->
     IF Cardinality(DOMAIN stats.weeklyFocus) > MaxWeeklyBuckets
       THEN [k \in Latest(DOMAIN stats.weeklyFocus, MaxWeeklyBuckets) |-> stats.weeklyFocus[k]]
       ELSE stats.weeklyFocus]

\* updateStatistics from the loaded object to the object it saves
updatedStatistics(stats, day, week, focusTime, shortBreaks, longBreaks) ==
  cleanupOldStatistics(
    [dailyFocus |-> Put(stats.dailyFocus, day,
                        addToBucket(Bucket(stats.dailyFocus, day),
                                    focusTime, shortBreaks, longBreaks)),
     weeklyFocus |-> Put(stats.weeklyFocus, week,
                         addToBucket(Bucket(stats.weeklyFocus, week),
                                     focusTime, shortBreaks, longBreaks))])

\* The calls the model makes: a minute of the tick loop, a short break, the
\* flush at a long break, and the two calls of a day with 125 seconds of
\* focus, two short breaks and one long break
StatsArgs == {<<60, 0, 0>>, <<0, 1, 0>>, <<900, 3, 1>>, <<125, 2, 0>>, <<0, 0, 1>>}

MaxStatsCalls == 2   \* updateStatistics calls of one behaviour
MaxStatsDays == 2    \* days that pass in one behaviour

\* The day the statistics are followed from
FirstDay == 104

\* updateStatistics up to await loadStatistics: the keys are taken, the
\* stored object is read
UpdateStatistics(args) ==
  /\ statsIssued < MaxStatsCalls
  /\ statsIssued' = statsIssued + 1
  /\ statsCalls' = statsCalls (+) SetToBag({[day |-> today, week |-> getWeekNumber(today),
                                            focus |-> args[1], short |-> args[2],
                                            long |-> args[3], loaded |-> statistics]})
  /\ UNCHANGED strayIntervals
  /\ UNCHANGED <<statistics, today, storedSettings, response, writeFailures, coreVars>>

\* loadStatistics resolved: the buckets are updated, old ones dropped and
\* the object is written
StatisticsSaved(c) ==
  /\ BagIn(c, statsCalls)
  /\ statistics' = updatedStatistics(c.loaded, c.day, c.week, c.focus, c.short, c.long)
  /\ statsCalls' = statsCalls (-) SetToBag({c})
  /\ UNCHANGED strayIntervals
  /\ UNCHANGED <<today, statsIssued, storedSettings, response, writeFailures, coreVars>>

\* Midnight passes
NextDay ==
  /\ today < FirstDay + MaxStatsDays
  /\ today' = today + 1
  /\ UNCHANGED strayIntervals
  /\ UNCHANGED <<statistics, statsCalls, statsIssued, storedSettings, response,
                 writeFailures, coreVars>>

----------------------------------------------------------------------------
(* storage/settings.js *)

\* A JavaScript value of a stored settings object: its type, and its number,
\* string or boolean
Undefined == [t |-> "undefined", n |-> 0, s |-> "", b |-> FALSE]
Num(n) == [t |-> "number", n |-> n, s |-> "", b |-> FALSE]
Str(s) == [t |-> "string", n |-> 0, s |-> s, b |-> FALSE]
Bool(b) == [t |-> "boolean", n |-> 0, s |-> "", b |-> b]

\* No settings object is stored
NoSettings == [absent |-> TRUE]

getDefaultSettings ==
  [shortPeriodDuration |-> 5, shortBreakDuration |-> 10, longPeriodDuration |-> 90,
   longBreakDuration |-> 20, autoStartNextSession |-> FALSE]

\* Number(value): [nan, n]. Of the strings only those of StringNumbers are
\* numerals
StringNumbers == [x \in {"30"} |-> 30]

ToNumber(value) ==
  CASE value.t = "number" -> [nan |-> FALSE, n |-> value.n]
    [] value.t = "boolean" -> [nan |-> FALSE, n |-> IF value.b THEN 1 ELSE 0]
    [] value.t = "string" ->
         IF value.s \in DOMAIN StringNumbers
           THEN [nan |-> FALSE, n |-> StringNumbers[value.s]]
           ELSE IF value.s = "" THEN [nan |-> FALSE, n |-> 0]
           ELSE [nan |-> TRUE, n |-> 0]
    [] OTHER -> [nan |-> TRUE, n |-> 0]

validateNumericSetting(value, defaultValue, min, max) ==
  LET numValue == ToNumber(value)
  IN  IF numValue.nan \/ numValue.n < min \/ numValue.n > max
        THEN defaultValue
        ELSE numValue.n

validateSettings(raw) ==
  [shortPeriodDuration |->
     validateNumericSetting(raw.shortPeriodDuration,
                            getDefaultSettings.shortPeriodDuration, 1, 60),
   shortBreakDuration |->
     validateNumericSetting(raw.shortBreakDuration,
                            getDefaultSettings.shortBreakDuration, 5, 60),
   longPeriodDuration |->
     validateNumericSetting(raw.longPeriodDuration,
                            getDefaultSettings.longPeriodDuration, 15, 240),
   longBreakDuration |->
     validateNumericSetting(raw.longBreakDuration,
                            getDefaultSettings.longBreakDuration, 1, 60),
   autoStartNextSession |->
     IF raw.autoStartNextSession.t = "boolean"
       THEN raw.autoStartNextSession.b
       ELSE getDefaultSettings.autoStartNextSession]

\* A validated object as it is stored: numbers and a boolean
AsStored(st) ==
  [shortPeriodDuration |-> Num(st.shortPeriodDuration),
   shortBreakDuration |-> Num(st.shortBreakDuration),
   longPeriodDuration |-> Num(st.longPeriodDuration),
   longBreakDuration |-> Num(st.longBreakDuration),
   autoStartNextSession |-> Bool(st.autoStartNextSession)]

\* loadSettings: the stored object validated, the defaults when there is none
LoadSettings ==
  /\ settings' = IF storedSettings = NoSettings
                   THEN getDefaultSettings
                   ELSE validateSettings(storedSettings)
  /\ UNCHANGED <<currentSession, timerInterval, tickDue, alarms, inbox, listeners, tasks,
                 timeouts, stored, statsLog, notifications, now, nextId, requests>>
  /\ UNCHANGED otherVars

\* saveSettings of the object the core holds: it is validated and written
SaveSettings ==
  /\ storedSettings' = AsStored(validateSettings(AsStored(settings)))
  /\ UNCHANGED strayIntervals
  /\ UNCHANGED <<statistics, statsCalls, today, statsIssued, response, writeFailures,
                 coreVars>>

\* The values a stored object is examined with, by field: missing, the
\* bounds of the field and their neighbours, a string and a boolean
RawSettingsSpace ==
  [shortPeriodDuration : {Undefined, Num(0), Num(1), Num(60), Num(61), Str("abc"), Bool(TRUE)},
   shortBreakDuration : {Undefined, Num(4), Num(5), Num(60), Num(61), Str("abc"), Bool(TRUE)},
   longPeriodDuration : {Undefined, Num(14), Num(15), Num(240), Num(241), Str("abc"), Bool(TRUE)},
   longBreakDuration : {Undefined, Num(0), Num(1), Num(60), Num(61), Str("abc"), Bool(TRUE)},
   autoStartNextSession : {Undefined, Bool(TRUE), Bool(FALSE), Str("true"), Num(1)}]

----------------------------------------------------------------------------
(* background/background.js handleMessage and timer.js: the requests
   followed to their response, with a saveSessionState that may reject *)

MaxWriteFailures == 1  \* rejected saveSessionState calls of one behaviour

NoResponse == [action |-> "none", session |-> << >>, error |-> FALSE]

\* sendResponse(session)
SessionResponse(action, session) == [action |-> action, session |-> <<session>>, error |-> FALSE]

\* sendResponse({error: ...}) of the .catch of handleMessage
ErrorResponse(action) == [action |-> action, session |-> << >>, error |-> TRUE]

\* The outcomes a saveSessionState call may have: resolved (TRUE) or
\* rejected (FALSE)
WriteOutcomes == {ok \in BOOLEAN : ok \/ writeFailures < MaxWriteFailures}

\* chrome.storage.local after saveSessionState(session)
Written(session, ok) == IF ok THEN <<session>> ELSE stored

Rejected(ok) == IF ok THEN writeFailures ELSE writeFailures + 1

\* A faulty variant of pauseSession: a rejected write undoes the transition
PauseRequest_RollsBack(ok) ==
  /\ Idle /\ requests < MaxRequests
  /\ requests' = requests + 1
  /\ ok \in WriteOutcomes
  /\ IF ~pauseSessionGuard(currentSession)
       THEN /\ ok
            /\ response' = SessionResponse("pauseSession", currentSession)
            /\ UNCHANGED <<currentSession, timerInterval, stored, writeFailures>>
       ELSE /\ currentSession' = IF ok THEN updateSessionState(currentSession, "paused", now)
                                  ELSE currentSession
            /\ timerInterval' = IF ok THEN FALSE ELSE timerInterval
            /\ stored' = Written(currentSession', ok)
            /\ writeFailures' = Rejected(ok)
            /\ response' = IF ok THEN SessionResponse("pauseSession", currentSession')
                           ELSE ErrorResponse("pauseSession")
  /\ UNCHANGED <<tickDue, alarms, inbox, listeners, tasks, timeouts, statsLog,
                 notifications, settings, now, nextId>>
  /\ UNCHANGED strayIntervals
  /\ UNCHANGED <<statistics, statsCalls, today, statsIssued, storedSettings>>

\* pauseSession and the response handleMessage sends: the session the call
\* resolves with, or an error when the write rejected
PauseRequest(ok) ==
  /\ Idle /\ requests < MaxRequests
  /\ requests' = requests + 1
  /\ ok \in WriteOutcomes
  /\ IF ~pauseSessionGuard(currentSession)
       THEN /\ ok
            /\ response' = SessionResponse("pauseSession", currentSession)
            /\ UNCHANGED <<currentSession, timerInterval, stored, writeFailures>>
       ELSE /\ currentSession' = updateSessionState(currentSession, "paused", now)
            /\ timerInterval' = FALSE
            /\ stored' = Written(currentSession', ok)
            /\ writeFailures' = Rejected(ok)
            /\ response' = IF ok THEN SessionResponse("pauseSession", currentSession')
                           ELSE ErrorResponse("pauseSession")
  /\ UNCHANGED <<tickDue, alarms, inbox, listeners, tasks, timeouts, statsLog,
                 notifications, settings, now, nextId>>
  /\ UNCHANGED strayIntervals
  /\ UNCHANGED <<statistics, statsCalls, today, statsIssued, storedSettings>>

ResumeRequest(ok) ==
  /\ Idle /\ requests < MaxRequests
  /\ requests' = requests + 1
  /\ ok \in WriteOutcomes
  /\ IF ~resumeSessionGuard(currentSession)
       THEN /\ ok
            /\ response' = SessionResponse("resumeSession", currentSession)
            /\ UNCHANGED <<currentSession, timerInterval, tickDue, stored, writeFailures,
                           strayIntervals>>
       ELSE /\ currentSession' = updateSessionState(currentSession, "active", now)
            /\ strayIntervals' = startTimerUpdates(timerInterval, tickDue, strayIntervals)
            /\ timerInterval' = TRUE
            /\ tickDue' = now + TIMER_UPDATE_INTERVAL
            /\ stored' = Written(currentSession', ok)
            /\ writeFailures' = Rejected(ok)
            /\ response' = IF ok THEN SessionResponse("resumeSession", currentSession')
                           ELSE ErrorResponse("resumeSession")
  /\ UNCHANGED <<alarms, inbox, listeners, tasks, timeouts, statsLog, notifications,
                 settings, now, nextId>>
  /\ UNCHANGED <<statistics, statsCalls, today, statsIssued, storedSettings>>

\* resetSession after clearSessionAlarms resolved, to its response
ResetRequestCreate(t, ok) ==
  /\ Idle
  /\ t \in Suspended /\ t.fn = "resetSession" /\ t.pc = "clear"
  /\ nextId <= MaxSessionId
  /\ ok \in WriteOutcomes
  /\ alarms' = clearSessionAlarms(alarms, t.arg)
  /\ currentSession' = createNewSession(nextId, now)
  /\ nextId' = nextId + 1
  /\ stored' = Written(currentSession', ok)
  /\ writeFailures' = Rejected(ok)
  /\ response' = IF t.h # "resetSession" THEN response
                 ELSE IF ok THEN SessionResponse("resetSession", currentSession')
                 ELSE ErrorResponse("resetSession")
  /\ tasks' = Finish(t)
  /\ UNCHANGED <<timerInterval, tickDue, inbox, listeners, timeouts, statsLog,
                 notifications, settings, now, requests>>
  /\ UNCHANGED strayIntervals
  /\ UNCHANGED <<statistics, statsCalls, today, statsIssued, storedSettings>>

\* startSession after scheduleRandomBreaks resolved, to its response: a
\* rejected write is caught by startSession itself, which then resolves
\* with createNewSession(), a session that is not the live one
StartRequestSchedule(t, ok) ==
  /\ Idle
  /\ t \in Suspended /\ t.fn = "startSession" /\ t.pc = "schedule"
  /\ ok \in WriteOutcomes
  /\ ok \/ nextId <= MaxSessionId
  /\ \E rnd \in RandomChoices(numberOfBreaks(settings.shortPeriodDuration)) :
       alarms' = scheduleAlarms(clearSessionAlarms(alarms, t.arg), t.arg, t.start,
                                settings, rnd, now)
  /\ strayIntervals' = startTimerUpdates(timerInterval, tickDue, strayIntervals)
  /\ timerInterval' = TRUE
  /\ tickDue' = now + TIMER_UPDATE_INTERVAL
  /\ stored' = Written(currentSession, ok)
  /\ writeFailures' = Rejected(ok)
  /\ nextId' = IF ok THEN nextId ELSE nextId + 1
  /\ response' = IF t.h # "startSession" THEN response
                 ELSE IF ok THEN SessionResponse("startSession", currentSession)
                 ELSE SessionResponse("startSession", createNewSession(nextId, now))
  /\ tasks' = Finish(t)
  /\ UNCHANGED <<currentSession, inbox, listeners, timeouts, statsLog, notifications,
                 settings, now, requests>>
  /\ UNCHANGED <<statistics, statsCalls, today, statsIssued, storedSettings>>

\* The interval callback: when its write rejects, the callback ends there
\* and the statistics are not touched
TickWrite(ok) ==
  /\ Idle
  /\ timerInterval /\ tickDue <= now
  /\ tickDue' = now + TIMER_UPDATE_INTERVAL
  /\ ok \in WriteOutcomes
  /\ IF currentSession.state = "active"
       THEN /\ CanSuspend
            /\ currentSession' = tickElapsed(currentSession, now)
            /\ stored' = Written(currentSession', ok)
            /\ writeFailures' = Rejected(ok)
            /\ tasks' = IF ok THEN Suspend(Task("tick", "tick", "save", currentSession.state,
                                                currentSession.id, 0, 0))
                        ELSE tasks
       ELSE ok /\ UNCHANGED <<currentSession, stored, tasks, writeFailures>>
  /\ UNCHANGED <<timerInterval, alarms, inbox, listeners, timeouts, statsLog, notifications,
                 settings, now, nextId, requests>>
  /\ UNCHANGED strayIntervals
  /\ UNCHANGED <<statistics, statsCalls, today, statsIssued, storedSettings, response>>

\* The storage modules at rest: no statistics recorded, no settings stored
OthersIdle ==
  /\ statistics = getDefaultStatistics
  /\ statsCalls = EmptyBag
  /\ today = FirstDay
  /\ statsIssued = 0
  /\ storedSettings = NoSettings
  /\ response = NoResponse
  /\ writeFailures = 0
  /\ strayIntervals = << >>

----------------------------------------------------------------------------
(* The service after initializeExtension on a profile with no stored       *)
(* session: initTimer has loaded a new idle session and the alarm listener *)
(* is registered                                                           *)

CoreInit(n) ==
  /\ now = 1000
  /\ currentSession = createNewSession(1, 1000)
  /\ nextId = 2
  /\ timerInterval = FALSE
  /\ tickDue = 0
  /\ alarms = {}
  /\ inbox = << >>
  /\ listeners = n
  /\ tasks = EmptyBag
  /\ timeouts = EmptyBag
  /\ stored = << >>
  /\ statsLog = << >>
  /\ notifications = [short |-> 0, long |-> 0]
  /\ settings \in SettingsSpace
  /\ requests = 0

InitWith(n) == CoreInit(n) /\ OthersIdle

Init == InitWith(1)

\* The service after a browser start: the module's top level and the
\* onStartup event have each run initializeExtension, which has registered
\* the alarm listener twice
InitStartup == InitWith(2)

Next ==
  \/ StartSession
  \/ PauseSession
  \/ ResumeSession
  \/ ResetSession
  \/ NotificationClick
  \/ HandleAlarm
  \/ Tick
  \/ AdvanceTime
  \/ \E a \in alarms : FireAlarm(a)
  \/ \E c \in BagToSet(timeouts) : ShortBreakTimeout(c) \/ LongBreakTimeout(c)
  \/ \E t \in Suspended :
       \/ StartSessionCreate(t)
       \/ StartSessionSchedule(t)
       \/ ResetSessionCreate(t)
       \/ ShortBreakNotified(t)
       \/ ShortBreakSave(t)
       \/ ShortBreakArm(t)
       \/ LongBreakEnter(t)
       \/ LongBreakSave(t)
       \/ LongBreakArm(t)
       \/ EndLongBreakBranch(t)
       \/ TickSaved(t)

Spec == Init /\ [][Next]_vars

\* The settings and start times break scheduling is examined with: every
\* whole shortPeriodDuration validateSettings accepts, with the default
\* longPeriodDuration
ScheduleSettingsSpace ==
  [shortPeriodDuration : 1..240, shortBreakDuration : {10},
   longPeriodDuration : {90}, longBreakDuration : {20},
   autoStartNextSession : {FALSE}]

\* The start timestamps break scheduling is examined with
StartTimes == {1000, 777777}

InitSchedule ==
  /\ now \in StartTimes
  /\ currentSession = createNewSession(1, now)
  /\ nextId = 2
  /\ timerInterval = FALSE
  /\ tickDue = 0
  /\ alarms = {}
  /\ inbox = << >>
  /\ listeners = 1
  /\ tasks = EmptyBag
  /\ timeouts = EmptyBag
  /\ stored = << >>
  /\ statsLog = << >>
  /\ notifications = [short |-> 0, long |-> 0]
  /\ settings \in ScheduleSettingsSpace
  /\ requests = 0
  /\ OthersIdle

\* startSession alone: the requests and their continuations
NextSchedule ==
  \/ requests < MaxScheduleStarts /\ StartSession
  \/ \E t \in Suspended : StartSessionCreate(t) \/ StartSessionSchedule(t)

SpecSchedule == InitSchedule /\ [][NextSchedule]_vars

\* startSession alone, with scheduling in which one alarm may fail to be
\* created
NextScheduleFailing ==
  \/ requests < MaxScheduleStarts /\ StartSession
  \/ \E t \in Suspended :
       StartSessionCreate(t) \/ StartSessionSchedule(t) \/ StartSessionScheduleFailing(t)

\* The periods failing registration is examined with: one break, three
\* breaks and twelve
InitScheduleFailing ==
  /\ InitSchedule
  /\ settings.shortPeriodDuration \in {1, 15, 60}

SpecScheduleFailing == InitScheduleFailing /\ [][NextScheduleFailing]_vars

\* The requests, with writes that may reject, the interval callback and
\* the clock; no alarm is delivered
NextWrites ==
  \/ StartSession
  \/ ResetSession
  \/ AdvanceTime
  \/ \E ok \in BOOLEAN : PauseRequest(ok)
  \/ \E ok \in BOOLEAN : ResumeRequest(ok)
  \/ \E ok \in BOOLEAN : TickWrite(ok)
  \/ \E t \in Suspended : StartSessionCreate(t)
  \/ \E t \in Suspended : TickSaved(t)
  \/ \E t \in Suspended, ok \in BOOLEAN : StartRequestSchedule(t, ok)
  \/ \E t \in Suspended, ok \in BOOLEAN : ResetRequestCreate(t, ok)

SpecWrites == Init /\ [][NextWrites]_vars

----------------------------------------------------------------------------
(* timer.js: startShortBreak when one of its awaited operations fails *)

\* A faulty variant of the catch of startShortBreak: the error is only logged
startShortBreakCatch_OnlyLogs(session, t) == session

\* The catch of startShortBreak: a session in shortBreak is put back to
\* active
startShortBreakCatch(session, t) ==
  IF session.state = "shortBreak" THEN updateSessionState(session, "active", t)
  ELSE session

\* showNotification resolved with null: the notification could not be
\* created, which showNotification logs and swallows; updateStatistics(0, 1, 0)
\* is called as after a notification that was shown
ShortBreakNotificationFailed(t) ==
  /\ Idle
  /\ t \in Suspended /\ t.fn = "startShortBreak" /\ t.pc = "notify"
  /\ statsLog' = Append(statsLog, StatsCall(t.fromId, 0, 1, 0))
  /\ tasks' = Replace(t, [t EXCEPT !.pc = "stats"])
  /\ UNCHANGED <<currentSession, timerInterval, tickDue, alarms, inbox, listeners, timeouts,
                 stored, notifications, settings, now, nextId, requests>>
  /\ UNCHANGED otherVars

\* The catch block: the live session leaves shortBreak and is written when
\* it was in shortBreak; ok is the outcome of that write, whose rejection
\* goes to the catch of handleAlarm
ShortBreakCatch(t, ok) ==
  /\ currentSession' = startShortBreakCatch(currentSession, now)
  /\ IF currentSession.state = "shortBreak"
       THEN /\ ok \in WriteOutcomes
            /\ stored' = Written(currentSession', ok)
            /\ writeFailures' = Rejected(ok)
       ELSE ok /\ UNCHANGED <<stored, writeFailures>>
  /\ tasks' = Finish(t)

\* showNotification rejected (loadSettings and the language manager run
\* outside its try): the catch block runs
ShortBreakNotifyRejected(t, ok) ==
  /\ Idle
  /\ t \in Suspended /\ t.fn = "startShortBreak" /\ t.pc = "notify"
  /\ ShortBreakCatch(t, ok)
  /\ UNCHANGED <<timerInterval, tickDue, alarms, inbox, listeners, timeouts, statsLog,
                 notifications, settings, now, nextId, requests>>
  /\ UNCHANGED strayIntervals
  /\ UNCHANGED <<statistics, statsCalls, today, statsIssued, storedSettings, response>>

\* updateStatistics rejected (saveStatistics failed): the catch block runs
ShortBreakStatsRejected(t, ok) ==
  /\ Idle
  /\ t \in Suspended /\ t.fn = "startShortBreak" /\ t.pc = "stats"
  /\ ShortBreakCatch(t, ok)
  /\ UNCHANGED <<timerInterval, tickDue, alarms, inbox, listeners, timeouts, statsLog,
                 notifications, settings, now, nextId, requests>>
  /\ UNCHANGED strayIntervals
  /\ UNCHANGED <<statistics, statsCalls, today, statsIssued, storedSettings, response>>

\* updateStatistics resolved and the write of the session is rejected: the
\* handler is suspended until the rejection is delivered
ShortBreakWriteRejected(t) ==
  /\ Idle
  /\ t \in Suspended /\ t.fn = "startShortBreak" /\ t.pc = "stats"
  /\ writeFailures < MaxWriteFailures
  /\ writeFailures' = writeFailures + 1
  /\ tasks' = Replace(t, [t EXCEPT !.pc = "rejected"])
  /\ UNCHANGED <<currentSession, timerInterval, tickDue, alarms, inbox, listeners, timeouts,
                 stored, statsLog, notifications, settings, now, nextId, requests>>
  /\ UNCHANGED strayIntervals
  /\ UNCHANGED <<statistics, statsCalls, today, statsIssued, storedSettings, response>>

\* The rejection of saveSessionState is delivered: the catch block runs
ShortBreakWriteCaught(t, ok) ==
  /\ Idle
  /\ t \in Suspended /\ t.fn = "startShortBreak" /\ t.pc = "rejected"
  /\ ShortBreakCatch(t, ok)
  /\ UNCHANGED <<timerInterval, tickDue, alarms, inbox, listeners, timeouts, statsLog,
                 notifications, settings, now, nextId, requests>>
  /\ UNCHANGED strayIntervals
  /\ UNCHANGED <<statistics, statsCalls, today, statsIssued, storedSettings, response>>


\* A session started at 1000 with the default settings that has counted 59
\* seconds
MinuteSession ==
  [updateSessionState(createNewSession(1, 1000), "active", 1000) EXCEPT !.elapsedTime = 59]

\* The moment the 60th tick of that session is due; its short break lies
\* ahead
InitMinute ==
  /\ settings = getDefaultSettings
  /\ now = 61000
  /\ currentSession = MinuteSession
  /\ nextId = 2
  /\ timerInterval = TRUE
  /\ tickDue = 61000
  /\ alarms = scheduleAlarms({}, 1, 1000, settings, [i \in 1..1 |-> 999], 1000)
  /\ inbox = << >>
  /\ listeners = 1
  /\ tasks = EmptyBag
  /\ timeouts = EmptyBag
  /\ stored = <<currentSession>>
  /\ statsLog = << >>
  /\ notifications = [short |-> 0, long |-> 0]
  /\ requests = 0
  /\ OthersIdle

SpecMinute == InitMinute /\ [][Next]_vars

\* Start and reset requests alone, in any interleaving of their handlers;
\* the clock stands still and no alarm is delivered
NextStartReset ==
  \/ StartSession
  \/ ResetSession
  \/ \E t \in Suspended :
       \/ StartSessionCreate(t)
       \/ StartSessionSchedule(t)
       \/ ResetSessionCreate(t)

SpecStartReset == Init /\ [][NextStartReset]_vars

SpecStartup == InitStartup /\ [][Next]_vars

----------------------------------------------------------------------------
(* background/background.js: the short-break watchdog *)

\* The period of the watchdog's setInterval, in ms
WatchdogInterval == 30000

\* The leeway the watchdog allows beyond shortBreakDuration, in seconds
WatchdogLeewaySeconds == 15

\* A faulty variant of watchdogExpired: the time in the break is left in
\* milliseconds while the allowance is scaled to milliseconds twice
watchdogExpired_UnitsMixed(session, duration, t) ==
  (t - session.stateStartTime) > (duration + WatchdogLeewaySeconds) * 1000 * 1000

\* The watchdog's test on the stored session:
\* (now - stateStartTime) / 1000 > shortBreakDuration + 15
watchdogExpired(session, duration, t) ==
  (t - session.stateStartTime) > (duration + WatchdogLeewaySeconds) * 1000

\* The time a session and its long break take, and the time by which every
\* session the model can start is over: the watchdog is polled up to then
SessionSpan == (settings.longPeriodDuration + settings.longBreakDuration) * 60000

WatchdogHorizon == MaxSessionId * (SessionSpan + WatchdogInterval)

\* The watchdog's interval fires: the callback calls loadSessionState and
\* awaits it; the interval stays armed
WatchdogPoll(c) ==
  /\ Idle
  /\ BagIn(c, timeouts) /\ c.kind = "watchdog" /\ c.due <= now
  /\ CanSuspend
  /\ timeouts' = (timeouts (-) SetToBag({c}))
       (+) (IF now < WatchdogHorizon
              THEN SetToBag({Timeout("watchdog", c.due + WatchdogInterval, 0)})
              ELSE EmptyBag)
  /\ tasks' = Suspend(Task("watchdog", "watchdog", "load", currentSession.state,
                           currentSession.id, 0, 0))
  /\ UNCHANGED <<currentSession, timerInterval, tickDue, alarms, inbox, listeners, stored,
                 statsLog, notifications, settings, now, nextId, requests>>
  /\ UNCHANGED otherVars

\* loadSessionState and loadSettings resolved in the watchdog: a stored
\* session that has been in shortBreak too long makes it call endShortBreak,
\* which tests the live session
WatchdogCheck(t) ==
  /\ Idle
  /\ t \in Suspended /\ t.fn = "watchdog" /\ t.pc = "load"
  /\ tasks' = Finish(t)
  /\ IF /\ stored # << >>
        /\ stored[1].state = "shortBreak"
        /\ watchdogExpired(stored[1], ShortBreakSeconds, now)
        /\ endShortBreakGuard(currentSession, currentSession.id)
       THEN /\ currentSession' = updateSessionState(currentSession, "active", now)
            /\ stored' = <<currentSession'>>
       ELSE UNCHANGED <<currentSession, stored>>
  /\ UNCHANGED <<timerInterval, tickDue, alarms, inbox, listeners, timeouts, statsLog,
                 notifications, settings, now, nextId, requests>>
  /\ UNCHANGED otherVars

\* A pending short-break end (primary or failsafe) is lost and never runs
DropTimeout(c) ==
  /\ BagIn(c, timeouts) /\ c.kind \in {"shortBreakEnd", "shortBreakFailsafe"}
  /\ timeouts' = timeouts (-) SetToBag({c})
  /\ UNCHANGED <<currentSession, timerInterval, tickDue, alarms, inbox, listeners, tasks,
                 stored, statsLog, notifications, settings, now, nextId, requests>>
  /\ UNCHANGED otherVars

\* The times of the watchdog's first poll the model examines
WatchdogPhases == {11000, 31000}

\* The service after initializeExtension with the watchdog armed, while the
\* user's one request, a start, is being handled
InitWatchdog ==
  /\ now = 1000
  /\ currentSession = createNewSession(1, 1000)
  /\ nextId = 2
  /\ timerInterval = FALSE
  /\ tickDue = 0
  /\ alarms = {}
  /\ inbox = << >>
  /\ listeners = 1
  /\ tasks = SetToBag({startSessionCall("startSession", "idle", 1)})
  /\ \E p \in WatchdogPhases : timeouts = SetToBag({Timeout("watchdog", p, 0)})
  /\ stored = << >>
  /\ statsLog = << >>
  /\ notifications = [short |-> 0, long |-> 0]
  /\ settings \in SettingsSpace
  /\ requests = MaxRequests
  /\ OthersIdle

\* What the event loop runs by itself: alarms, timers and continuations
Running ==
  \/ HandleAlarm
  \/ Tick
  \/ AdvanceTime
  \/ \E a \in alarms : FireAlarm(a)
  \/ \E c \in BagToSet(timeouts) : ShortBreakTimeout(c) \/ LongBreakTimeout(c)
  \/ \E t \in Suspended :
       \/ StartSessionCreate(t)
       \/ StartSessionSchedule(t)
       \/ ResetSessionCreate(t)
       \/ ShortBreakNotified(t)
       \/ ShortBreakSave(t)
       \/ ShortBreakArm(t)
       \/ LongBreakEnter(t)
       \/ LongBreakSave(t)
       \/ LongBreakArm(t)
       \/ EndLongBreakBranch(t)
       \/ TickSaved(t)

\* The same with the watchdog
Scheduled ==
  \/ Running
  \/ \E c \in BagToSet(timeouts) : WatchdogPoll(c)
  \/ \E t \in Suspended : WatchdogCheck(t)

NextWatchdog ==
  \/ \E c \in BagToSet(timeouts) : DropTimeout(c)
  \/ Scheduled

\* Every callback that is ready runs, and the clock goes on
SpecWatchdog == InitWatchdog /\ [][NextWatchdog]_vars /\ WF_vars(Scheduled)

\* The start request of a session has been received
InitLongRun ==
  /\ now = 1000
  /\ currentSession = createNewSession(1, 1000)
  /\ nextId = 2
  /\ timerInterval = FALSE
  /\ tickDue = 0
  /\ alarms = {}
  /\ inbox = << >>
  /\ listeners = 1
  /\ tasks = SetToBag({startSessionCall("startSession", "idle", 1)})
  /\ timeouts = EmptyBag
  /\ stored = << >>
  /\ statsLog = << >>
  /\ notifications = [short |-> 0, long |-> 0]
  /\ settings \in SettingsSpace
  /\ requests = 0
  /\ OthersIdle

\* The user pauses, as long as a request is left to resume with
UserPauses == requests < MaxRequests - 1 /\ PauseSession

\* The user resumes a paused session
UserResumes == resumeSessionGuard(currentSession) /\ ResumeSession

\* A session that is started and from then on only paused and resumed by
\* the user: no other start and no reset is requested
NextLongRun ==
  \/ UserPauses
  \/ UserResumes
  \/ Running

\* Every callback that is ready runs, the clock goes on, and every pause is
\* resumed
SpecLongRun ==
  InitLongRun /\ [][NextLongRun]_vars /\ WF_vars(Running) /\ WF_vars(UserResumes)

\* A started session runs, is reset at any time, and the operations of
\* startShortBreak can fail
NextBreakFaults ==
  \/ ResetSession
  \/ Running
  \/ \E t \in Suspended : ShortBreakNotificationFailed(t)
  \/ \E t \in Suspended, ok \in BOOLEAN : ShortBreakNotifyRejected(t, ok)
  \/ \E t \in Suspended, ok \in BOOLEAN : ShortBreakStatsRejected(t, ok)
  \/ \E t \in Suspended : ShortBreakWriteRejected(t)
  \/ \E t \in Suspended, ok \in BOOLEAN : ShortBreakWriteCaught(t, ok)

SpecBreakFaults == InitLongRun /\ [][NextBreakFaults]_vars

\* The onStartup event runs initializeExtension in the worker that has
\* already run it at its load: initTimer assigns the session it loaded
\* (a new one when nothing is stored) and calls startTimerUpdates when that
\* session is active, and the alarm listener is registered once more. The
\* watchdog, which does not touch the interval, is not followed here.
InitializeAgain ==
  /\ Idle
  /\ listeners < 2
  /\ stored = << >> => nextId <= MaxSessionId
  /\ currentSession' = IF stored = << >> THEN createNewSession(nextId, now) ELSE stored[1]
  /\ nextId' = IF stored = << >> THEN nextId + 1 ELSE nextId
  /\ IF currentSession'.state = "active"
       THEN /\ strayIntervals' = startTimerUpdates(timerInterval, tickDue, strayIntervals)
            /\ timerInterval' = TRUE
            /\ tickDue' = now + TIMER_UPDATE_INTERVAL
       ELSE UNCHANGED <<timerInterval, tickDue, strayIntervals>>
  /\ listeners' = listeners + 1
  /\ UNCHANGED <<alarms, inbox, tasks, timeouts, stored, statsLog, notifications, settings,
                 now, requests>>
  /\ UNCHANGED storageVars

\* A started session runs, is paused and resumed, and the worker is
\* initialized a second time at any moment
NextTickLoop ==
  \/ InitializeAgain
  \/ NextLongRun

SpecTickLoop == InitLongRun /\ [][NextTickLoop]_vars

\* A session started at 1000 that counted 29 seconds and entered its first
\* short break at 31000
ShortBreakSession ==
  recordShortBreak([updateSessionState(createNewSession(1, 1000), "active", 1000)
                      EXCEPT !.elapsedTime = 29], 31000)

\* startShortBreak has completed: the session is stored in shortBreak, the
\* two ends of the break are armed, the interval goes on, the long-break
\* alarm and the next watchdog poll lie ahead
InitShortBreak ==
  /\ settings \in SettingsSpace
  /\ now = 31000
  /\ currentSession = ShortBreakSession
  /\ nextId = 2
  /\ timerInterval = TRUE
  /\ tickDue = 32000
  /\ alarms = {[sid |-> 1, kind |-> "long_break", idx |-> 0,
                 when |-> 1000 + settings.longPeriodDuration * 60 * 1000]}
  /\ inbox = << >>
  /\ listeners = 1
  /\ tasks = EmptyBag
  /\ \E p \in WatchdogPhases :
       timeouts = SetToBag({Timeout("shortBreakEnd", now + ShortBreakSeconds * 1000, 1),
                            Timeout("shortBreakFailsafe",
                                    now + (ShortBreakSeconds + FailsafeGraceSeconds) * 1000, 1),
                            Timeout("watchdog", now + p, 0)})
  /\ stored = <<currentSession>>
  /\ statsLog = <<StatsCall(1, 0, 1, 0)>>
  /\ notifications = [short |-> 1, long |-> 0]
  /\ requests = 0
  /\ OthersIdle

\* The worker that started the short break (its interval is still armed)
\* is unloaded and a new one loaded while the stored session is in
\* shortBreak: the timeouts and the interval of the old worker are gone;
\* initializeExtension runs initTimer, which loads the stored session and
\* arms the interval only for an active one, and starts the watchdog
ReloadInShortBreak ==
  /\ Idle
  /\ tasks = EmptyBag
  /\ timerInterval
  /\ stored # << >> /\ stored[1].state = "shortBreak"
  /\ currentSession' = stored[1]
  /\ timerInterval' = (stored[1].state = "active")
  /\ tickDue' = now + TIMER_UPDATE_INTERVAL
  /\ listeners' = 1
  /\ timeouts' = SetToBag({Timeout("watchdog", now + WatchdogInterval, 0)})
  /\ UNCHANGED <<alarms, inbox, tasks, stored, statsLog, notifications, settings, now,
                 nextId, requests>>
  /\ strayIntervals' = << >>
  /\ UNCHANGED storageVars

\* No user action: the worker runs what is scheduled, the watchdog
\* included, and may be reloaded during the short break
NextReloadBreak ==
  \/ ReloadInShortBreak
  \/ Scheduled

\* Every callback that is ready runs, and the clock goes on
SpecReloadBreak == InitShortBreak /\ [][NextReloadBreak]_vars /\ WF_vars(Scheduled)

\* The service with a session in its long break: the session was started
\* at 1000, its long-break alarm was handled at the end of the long period
\* and startLongBreak has armed the end of the break
LongBreakSession ==
  updateSessionState(updateSessionState(createNewSession(1, 1000), "active", 1000),
                     "longBreak", 1000 + settings.longPeriodDuration * 60000)

InitLongBreak ==
  /\ settings \in SettingsSpace
  /\ now = 1000 + settings.longPeriodDuration * 60000
  /\ currentSession = LongBreakSession
  /\ nextId = 2
  /\ timerInterval = FALSE
  /\ tickDue = 0
  /\ alarms = {}
  /\ inbox = << >>
  /\ listeners = 1
  /\ tasks = EmptyBag
  /\ timeouts = SetToBag({Timeout("longBreakEnd", now + LongBreakMinutes * 60 * 1000, 1)})
  /\ stored = <<currentSession>>
  /\ statsLog = <<StatsCall(1, 0, 0, 1)>>
  /\ notifications = [short |-> 0, long |-> 1]
  /\ requests = 0
  /\ OthersIdle

SpecLongBreak == InitLongBreak /\ [][Next]_vars

----------------------------------------------------------------------------
(* The background service worker is unloaded and loaded again *)

\* The worker, idle, is terminated by the browser and started again:
\* pending setTimeout and setInterval callbacks are gone with it, alarms and
\* storage stay; initializeExtension runs, initTimer loads the stored
\* session and restarts the interval only for an active session, and the
\* alarm listener is registered. The watchdog, which acts on short breaks
\* only, is not followed here.
Restart ==
  /\ Idle
  /\ tasks = EmptyBag
  /\ stored # << >>
  /\ currentSession' = stored[1]
  /\ timerInterval' = (stored[1].state = "active")
  /\ tickDue' = now + TIMER_UPDATE_INTERVAL
  /\ listeners' = 1
  /\ timeouts' = EmptyBag
  /\ UNCHANGED <<alarms, inbox, tasks, stored, statsLog, notifications, settings, now,
                 nextId, requests>>
  /\ strayIntervals' = << >>
  /\ UNCHANGED storageVars

\* No user action: the worker runs what is scheduled, and may be restarted
NextReload ==
  \/ Restart
  \/ Running

\* Every callback that is ready runs, and the clock goes on
SpecReload == InitLongBreak /\ [][NextReload]_vars /\ WF_vars(Running)

----------------------------------------------------------------------------
(* The statistics module followed on its own *)

\* The statistics after a minute of focus was recorded on each of the days
\* from..to
AfterUse(from, to) ==
  cleanupOldStatistics(
    [dailyFocus |-> [d \in from..to |-> addToBucket(getDefaultDailyStats, 60, 0, 0)],
     weeklyFocus |->
       [w \in {getWeekNumber(d) : d \in from..to} |->
          addToBucket(getDefaultDailyStats,
                      60 * Cardinality({d \in from..to : getWeekNumber(d) = w}), 0, 0)]])

\* The stored statistics the model starts from: none, 29 days of use, and
\* 90 days of use
StatisticsHistories ==
  {getDefaultStatistics, AfterUse(FirstDay - 29, FirstDay - 1),
   AfterUse(FirstDay - 90, FirstDay - 1)}

InitStatistics ==
  /\ CoreInit(1)
  /\ statistics \in StatisticsHistories
  /\ statsCalls = EmptyBag
  /\ today = FirstDay
  /\ statsIssued = 0
  /\ storedSettings = NoSettings
  /\ response = NoResponse
  /\ writeFailures = 0
  /\ strayIntervals = << >>

NextStatistics ==
  \/ \E args \in StatsArgs : UpdateStatistics(args)
  \/ \E c \in BagToSet(statsCalls) : StatisticsSaved(c)
  \/ NextDay

SpecStatistics == InitStatistics /\ [][NextStatistics]_vars

----------------------------------------------------------------------------
(* The settings module followed on its own *)

\* Any object, or none, is stored; the core holds the defaults until it
\* loads the settings
InitSettings ==
  /\ now = 1000
  /\ currentSession = createNewSession(1, 1000)
  /\ nextId = 2
  /\ timerInterval = FALSE
  /\ tickDue = 0
  /\ alarms = {}
  /\ inbox = << >>
  /\ listeners = 1
  /\ tasks = EmptyBag
  /\ timeouts = EmptyBag
  /\ stored = << >>
  /\ statsLog = << >>
  /\ notifications = [short |-> 0, long |-> 0]
  /\ requests = 0
  /\ settings = getDefaultSettings
  /\ statistics = getDefaultStatistics
  /\ statsCalls = EmptyBag
  /\ today = FirstDay
  /\ statsIssued = 0
  /\ storedSettings \in RawSettingsSpace \cup {NoSettings}
  /\ response = NoResponse
  /\ writeFailures = 0
  /\ strayIntervals = << >>

NextSettings ==
  \/ LoadSettings
  \/ SaveSettings

SpecSettings == InitSettings /\ [][NextSettings]_vars

----------------------------------------------------------------------------
(* Properties *)

\* What an alarm delivery, a request or a deferred callback may touch when
\* it acts on the session: the record, the interval, the suspended
\* handlers, the statistics calls and the notifications
SessionEffects == <<currentSession, timerInterval, tasks, statsLog, notifications, timeouts>>

StateChanges == currentSession'.state # currentSession.state

Edge(from, to) == currentSession.state = from /\ currentSession'.state = to

LongBreakEndCaller == {"longBreakEnd", "notificationClick"}

\* C1: every change of the live session's state is one of the legal edges,
\* taken by its trigger: idle->active by start, active->paused by pause,
\* paused->active by resume, active->shortBreak by a short-break alarm,
\* shortBreak->active by the break end, active->longBreak by a long-break
\* alarm, longBreak->idle or longBreak->active by the long-break end, and
\* any state->idle by reset.
C1_LegalEdgesOnly ==
  [][StateChanges =>
       \/ Edge("idle", "active") /\ \E t \in Suspended : StartSessionCreate(t)
       \/ Edge("active", "paused") /\ PauseSession
       \/ Edge("paused", "active") /\ ResumeSession
       \/ Edge("active", "shortBreak") /\ HandleAlarm /\ isShortBreakAlarm(Head(inbox))
       \/ Edge("shortBreak", "active") /\ \E c \in BagToSet(timeouts) : ShortBreakTimeout(c)
       \/ Edge("active", "longBreak") /\ \E t \in Suspended : LongBreakEnter(t)
       \/ Edge("longBreak", "active")
            /\ \E t \in Suspended : StartSessionCreate(t) /\ t.h \in LongBreakEndCaller
       \/ Edge("longBreak", "idle")
            /\ \E t \in Suspended : ResetSessionCreate(t) /\ t.h \in LongBreakEndCaller
       \/ currentSession'.state = "idle"
            /\ \E t \in Suspended : ResetSessionCreate(t) /\ t.h = "resetSession"]_vars

\* C2: a delivery of an alarm whose name does not start with the live
\* session's id changes nothing: the session record is unchanged, no
\* statistics call is issued, no notification is shown, no break handler is
\* started and no break end is armed, whatever the session's state and the
\* alarm's kind.
C2_StaleAlarmChangesNothing ==
  [][HandleAlarm /\ ~NameStartsWith(Head(inbox), currentSession.id)
       => UNCHANGED SessionEffects]_vars

\* An alarm of a replaced session is being delivered while the live session
\* is active
C2_StaleAlarmDelivered ==
  /\ inbox # << >>
  /\ ~NameStartsWith(Head(inbox), currentSession.id)
  /\ currentSession.state = "active"

BreakStarted ==
  \/ currentSession'.state \in {"shortBreak", "longBreak"} /\ StateChanges
  \/ \E t \in BagToSet(tasks') : t.fn \in {"startShortBreak", "startLongBreak"}
                                   /\ CopiesIn(t, tasks') > CopiesIn(t, tasks)

\* C3: a delivery of an alarm that carries the live session's id while the
\* session is idle, paused, on a short break or on a long break is ignored
\* (nothing of the session changes, no break handler is started); a
\* delivery starts a break only if the id matches and the session is active.
C3_AlarmActsOnlyWhenActive ==
  [][HandleAlarm =>
       /\ (NameStartsWith(Head(inbox), currentSession.id) /\ currentSession.state # "active"
              => UNCHANGED SessionEffects)
       /\ (BreakStarted
              => NameStartsWith(Head(inbox), currentSession.id)
                   /\ currentSession.state = "active")]_vars

\* An alarm of the live session is being delivered while the session is
\* paused
C3_OwnAlarmDeliveredWhilePaused ==
  /\ inbox # << >>
  /\ NameStartsWith(Head(inbox), currentSession.id)
  /\ currentSession.state = "paused"
\* The continuations of a start request received while the live session
\* was in state st
StartStepFrom(st) ==
  \E t \in Suspended :
    /\ t.h = "startSession" /\ t.from = st
    /\ StartSessionCreate(t) \/ StartSessionSchedule(t)

\* C4: a start request and a resume request received while the session is
\* active are no-ops: the live session keeps its id, its state active, its
\* elapsedTime and shortBreakCount, and the scheduled alarms are unchanged.
C4_StartAndResumeNoOpWhenActive ==
  [][/\ (ResumeSession \/ StartSession) /\ currentSession.state = "active"
          => UNCHANGED <<currentSession, alarms>>
     /\ StartStepFrom("active") => UNCHANGED <<currentSession, alarms>>]_vars

\* C5: while the session is paused only resume and reset mutate it: a
\* start or pause request, an alarm delivery, endShortBreak and endLongBreak
\* leave the session record (id, state paused, elapsedTime, pauseStartTime,
\* totalPausedTime) unchanged.
C5_OnlyResumeAndResetWhenPaused ==
  [][/\ currentSession.state = "paused"
          /\ \/ StartSession \/ PauseSession \/ HandleAlarm \/ NotificationClick
             \/ \E c \in BagToSet(timeouts) : ShortBreakTimeout(c) \/ LongBreakTimeout(c)
          => UNCHANGED currentSession
     /\ StartStepFrom("paused") => UNCHANGED currentSession]_vars

\* C6: while the session is idle, start is the only operation that takes
\* the state out of idle: a pause or resume request, an alarm delivery,
\* endShortBreak and endLongBreak leave the state idle and the session
\* record unchanged.
C6_IdleLeftOnlyByStart ==
  [][currentSession.state = "idle"
       => /\ \/ PauseSession \/ ResumeSession \/ HandleAlarm \/ NotificationClick
             \/ \E c \in BagToSet(timeouts) : ShortBreakTimeout(c) \/ LongBreakTimeout(c)
             => UNCHANGED currentSession
          /\ StateChanges => \E t \in Suspended : StartSessionCreate(t)]_vars

\* C7: the live session's id changes only when start or reset replaces the
\* session: pause, resume, entering and ending a short break, entering a
\* long break and the ticks keep it.
C7_IdChangesOnlyOnStartOrReset ==
  [][currentSession'.id # currentSession.id
       => \E t \in Suspended : StartSessionCreate(t) \/ ResetSessionCreate(t)]_vars

\* The first started session has ticked, taken a short break, been paused
\* for a while and resumed, and is on its long break, still with its id
C7_SameIdThroughPauseAndBreaks ==
  /\ currentSession.id = 2
  /\ currentSession.state = "longBreak"
  /\ currentSession.shortBreakCount = 1
  /\ currentSession.totalPausedTime > 0
  /\ currentSession.elapsedTime > 0

\* C8: a deferred break end (the short-break timeout, its failsafe, the
\* long-break end) armed for a session that start or reset has since
\* replaced has no effect on the live session: it does not change the
\* record and does not enter endLongBreak.
C8_StaleBreakEndHasNoEffect ==
  [][\A c \in BagToSet(timeouts) :
        (ShortBreakTimeout(c) \/ LongBreakTimeout(c)) /\ c.sid # currentSession.id
          => UNCHANGED <<currentSession, tasks>>]_vars

LongBreakRecords(id) ==
  Cardinality({i \in DOMAIN statsLog : statsLog[i].sid = id /\ statsLog[i].long = 1})

LongBreakEndsArmed(id) ==
  LET cs == {c \in BagToSet(timeouts) : c.kind = "longBreakEnd" /\ c.sid = id}
  IN IF cs = {} THEN 0 ELSE BagCardinality([c \in cs |-> CopiesIn(c, timeouts)])

ShortBreakRecords(id) ==
  Cardinality({i \in DOMAIN statsLog : statsLog[i].sid = id /\ statsLog[i].short = 1
                                       /\ statsLog[i].long = 0})

\* C9: an alarm firing delivered to handleAlarm twice has the effect of one
\* delivery: a session's long-break alarm yields one statistics record with
\* longBreaks = 1 and one armed long-break end, and a short-break alarm
\* yields one short-break record, so that a session has no more
\* short-break records than short-break alarms.
C9_DuplicateDeliveryActsOnce ==
  \A id \in 1..MaxSessionId :
    /\ LongBreakRecords(id) <= 1
    /\ LongBreakEndsArmed(id) <= 1
    /\ ShortBreakRecords(id) <= numberOfBreaks(settings.shortPeriodDuration)

\* C10: when a reset request completes, the live session is a new idle
\* session with a new id, elapsedTime 0, shortBreakCount 0, no short break
\* taken, no pauseStartTime and totalPausedTime 0; no alarm named after the
\* session that was reset is scheduled; and the tick loop is stopped.
C10_ResetLeavesCleanIdleSession ==
  [][\A t \in Suspended :
        ResetSessionCreate(t) /\ t.h = "resetSession"
          => /\ currentSession' = createNewSession(currentSession'.id, now)
             /\ currentSession'.id \notin {currentSession.id, t.fromId}
             /\ \A a \in alarms' : a.sid \notin {currentSession.id, t.fromId}
             /\ ~timerInterval']_vars
\* C11: a pause followed by a resume after a delay D leaves elapsedTime
\* unchanged, adds D to totalPausedTime, clears pauseStartTime and returns
\* the session to active with the same id: pause records the time of the
\* pause, no step changes elapsedTime while the session stays paused, and
\* resume adds the time since the pause was recorded.
C11_PauseResumeKeepsElapsedTime ==
  [][/\ PauseSession /\ currentSession.state = "active"
          => currentSession' = [currentSession EXCEPT
                                  !.state = "paused", !.stateStartTime = now,
                                  !.pauseStartTime = now]
     /\ currentSession.state = "paused" /\ currentSession'.state = "paused"
          => /\ currentSession'.elapsedTime = currentSession.elapsedTime
             /\ currentSession'.pauseStartTime = currentSession.pauseStartTime
             /\ currentSession'.totalPausedTime = currentSession.totalPausedTime
             /\ currentSession'.id = currentSession.id
     /\ ResumeSession /\ currentSession.state = "paused"
          => currentSession' = [currentSession EXCEPT
                                  !.state = "active", !.stateStartTime = now,
                                  !.totalPausedTime = @ + (now - currentSession.pauseStartTime),
                                  !.pauseStartTime = 0]]_vars

\* A session that has ticked was paused, and resumed after a delay
C11_ResumedAfterDelay ==
  /\ currentSession.state = "active"
  /\ currentSession.totalPausedTime > 0
  /\ currentSession.pauseStartTime = 0
  /\ currentSession.elapsedTime > 0
\* The short-break alarms and the long-break alarms scheduled under a
\* session id
ShortAlarms(as, id) == {a \in as : a.sid = id /\ isShortBreakAlarm(AlarmName(a))}

LongAlarms(as, id) == {a \in as : a.sid = id /\ isLongBreakAlarm(AlarmName(a))}

\* The session ids alarms are scheduled under
ScheduledIds(as) == {a.sid : a \in as}

\* In SpecSchedule the clock stands still: every session starts at now

AlarmNames(as) == {AlarmName(a) : a \in as}

ExpectedNames(id, n) ==
  {[sid |-> id, kind |-> "short_break", idx |-> i] : i \in 0..(n - 1)}
    \cup {[sid |-> id, kind |-> "long_break", idx |-> 0]}

Quiescent == tasks = EmptyBag /\ inbox = << >>

\* C27: in every quiescent state the session in storage equals the live
\* session, whatever the interleaving of start, pause, resume, reset,
\* alarm, tick and break-end handlers; as long as nothing has been written,
\* the live session is the idle one created at startup, which no handler
\* has changed.
C27_QuiescentStoredIsLive ==
  Quiescent =>
    IF stored = << >> THEN currentSession = createNewSession(1, 1000)
    ELSE stored = <<currentSession>>

\* A session that took a short break, counted seconds and was paused, with
\* every handler finished
C27_PausedAfterBreakAndTicks ==
  /\ Quiescent
  /\ currentSession.state = "paused"
  /\ currentSession.shortBreakCount = 1
  /\ currentSession.elapsedTime > 0
  /\ stored = <<currentSession>>

\* C28: when the write issued by pause, resume, reset or a tick rejects,
\* the transition has taken effect in memory: the paused session has its
\* pause start recorded and the tick loop is stopped, the resumed session
\* has the pause added to its paused time and the loop is armed, reset has
\* replaced the session by a new idle one, the tick has counted its
\* second; and every later tick or transition whose write resolves leaves
\* the live session in storage.
C28_RejectedWriteKeepsTransition ==
  [][/\ (PauseRequest(FALSE) /\ pauseSessionGuard(currentSession))
          => /\ currentSession'.state = "paused"
             /\ currentSession'.id = currentSession.id
             /\ currentSession'.pauseStartTime = now
             /\ ~timerInterval'
     /\ (ResumeRequest(FALSE) /\ resumeSessionGuard(currentSession))
          => /\ currentSession'.state = "active"
             /\ currentSession'.id = currentSession.id
             /\ currentSession'.pauseStartTime = 0
             /\ currentSession'.totalPausedTime =
                  currentSession.totalPausedTime + (now - currentSession.pauseStartTime)
             /\ timerInterval'
     /\ \A t \in Suspended :
          ResetRequestCreate(t, FALSE)
            => /\ currentSession'.state = "idle"
               /\ currentSession'.id # currentSession.id
               /\ currentSession'.elapsedTime = 0
     /\ (TickWrite(FALSE) /\ currentSession.state = "active"
            /\ now > currentSession.stateStartTime)
          => /\ currentSession'.elapsedTime = currentSession.elapsedTime + 1
             /\ timerInterval'
     /\ (\/ PauseRequest(TRUE) /\ pauseSessionGuard(currentSession)
         \/ ResumeRequest(TRUE) /\ resumeSessionGuard(currentSession)
         \/ TickWrite(TRUE) /\ currentSession.state = "active"
         \/ \E t \in Suspended :
              StartRequestSchedule(t, TRUE) \/ ResetRequestCreate(t, TRUE))
          => stored' = <<currentSession'>>]_vars

\* The write of a pause was rejected: the live session is paused with the
\* tick loop stopped while storage still shows it active
C28_PausedButStoredActive ==
  /\ writeFailures = 1
  /\ response = ErrorResponse("pauseSession")
  /\ currentSession.state = "paused" /\ ~timerInterval
  /\ stored # << >> /\ stored[1].state = "active" /\ stored[1].id = currentSession.id

\* The session a response carries is the live one
LiveResponse(r) ==
  /\ r.session # << >>
  /\ r.session[1].id = currentSession'.id
  /\ r.session[1].state = currentSession'.state

\* C29: the response to a start, pause, resume or reset request carries
\* the live session as it is after the operation, same id and same state;
\* for start also when the write of the session rejects.
C29_ResponseIsLiveSession ==
  [][/\ \A ok \in BOOLEAN :
          (PauseRequest(ok) \/ ResumeRequest(ok)) /\ ~response'.error
            => LiveResponse(response')
     /\ \A t \in Suspended : \A ok \in BOOLEAN :
          (ResetRequestCreate(t, ok) /\ t.h = "resetSession" /\ ~response'.error)
            => LiveResponse(response')
     /\ \A t \in Suspended : \A ok \in BOOLEAN :
          (StartRequestSchedule(t, ok) /\ t.h = "startSession")
            => ~response'.error /\ LiveResponse(response')]_vars

\* The (60, 0, 0) statistics updates issued for a session
FocusMinutes(log, sid) ==
  Cardinality({i \in 1..Len(log) : log[i] = StatsCall(sid, 60, 0, 0)})

\* C30: every tick that brings elapsedTime to a positive multiple of 60
\* while the session is active issues exactly one statistics update of
\* (60, 0, 0) for that minute: once every handler has finished, the live
\* session has as many such updates as it has counted whole minutes.
C30_OneUpdatePerMinute ==
  Quiescent =>
    FocusMinutes(statsLog, currentSession.id) = currentSession.elapsedTime \div 60

\* C26: when the creation of one alarm fails while start schedules the
\* breaks of its new session, every other short-break alarm and the
\* long-break alarm of the session are registered (all expected names but
\* the failed one), and start completes: the session is active, the tick
\* loop is armed, the live session is written and the call is over.
C26_SchedulingSurvivesAlarmFailure ==
  [][\A t \in Suspended :
        StartSessionScheduleFailing(t) =>
          LET n == numberOfBreaks(settings.shortPeriodDuration)
              mine == {a \in alarms' : a.sid = t.arg}
          IN /\ \E lost \in ExpectedNames(t.arg, n) :
                   AlarmNames(mine) = ExpectedNames(t.arg, n) \ {lost}
             /\ Cardinality(mine) = n
             /\ currentSession'.state = "active"
             /\ timerInterval'
             /\ stored' = <<currentSession'>>
             /\ t \notin BagToSet(tasks')]_vars

\* A session with three short breaks was started, the creation of its
\* second short-break alarm failed, and the first, the third and the
\* long-break alarm are registered
C26_MiddleAlarmMissing ==
  /\ settings.shortPeriodDuration = 15
  /\ currentSession.state = "active" /\ timerInterval /\ tasks = EmptyBag
  /\ {a.idx : a \in ShortAlarms(alarms, currentSession.id)} = {0, 2}
  /\ LongAlarms(alarms, currentSession.id) # {}
\* C15: a short-break alarm of the live session delivered while the session
\* is active puts it in shortBreak, appends one timestamp to
\* shortBreaksTaken and adds 1 to shortBreakCount; the break is over when
\* shortBreakDuration seconds have passed, and the session leaves it for
\* active with the same id, elapsedTime and shortBreakCount.
C15_ShortBreakStartsAndEnds ==
  /\ [][/\ HandleAlarm /\ isShortBreakAlarm(Head(inbox))
             /\ NameStartsWith(Head(inbox), currentSession.id)
             /\ currentSession.state = "active"
             => currentSession' = [currentSession EXCEPT
                                     !.state = "shortBreak", !.stateStartTime = now,
                                     !.shortBreaksTaken = Append(@, now),
                                     !.shortBreakCount = @ + 1]
        /\ currentSession.state = "shortBreak" /\ currentSession'.state # "shortBreak"
             /\ currentSession'.id = currentSession.id
             => currentSession' = [currentSession EXCEPT
                                     !.state = "active", !.stateStartTime = now]]_vars
  /\ [](currentSession.state = "shortBreak"
          => now <= currentSession.stateStartTime + ShortBreakSeconds * 1000)

\* The first started session took its short break and is active again,
\* shortBreakDuration seconds after the break began
C15_BackFromShortBreak ==
  /\ currentSession.id = 2
  /\ currentSession.state = "active"
  /\ currentSession.shortBreakCount = 1
  /\ Len(currentSession.shortBreaksTaken) = 1
  /\ currentSession.stateStartTime
       = currentSession.shortBreaksTaken[1] + ShortBreakSeconds * 1000
  /\ now = currentSession.stateStartTime
\* C16: a short break cannot last forever. When the stored session has
\* been in shortBreak for more than shortBreakDuration + 15 seconds at a
\* watchdog poll, the poll puts the live session back to active; so, with
\* the primary and the failsafe callbacks free to be lost, every state
\* shortBreak is eventually followed by a state other than shortBreak.
C16_ShortBreakAlwaysEnds ==
  /\ [][\A t \in Suspended :
          /\ WatchdogCheck(t)
          /\ currentSession.state = "shortBreak"
          /\ stored # << >> /\ stored[1].state = "shortBreak"
          /\ now - stored[1].stateStartTime > (ShortBreakSeconds + 15) * 1000
          => currentSession' = [currentSession EXCEPT
                                  !.state = "active", !.stateStartTime = now]]_vars
  /\ (currentSession.state = "shortBreak") ~> (currentSession.state # "shortBreak")

\* A short break whose two callbacks were lost has been ended by the
\* watchdog, later than shortBreakDuration + 15 seconds after it began
C16_EndedByWatchdog ==
  /\ currentSession.state = "active"
  /\ currentSession.shortBreakCount = 1
  /\ Len(currentSession.shortBreaksTaken) = 1
  /\ currentSession.stateStartTime
       > currentSession.shortBreaksTaken[1] + (ShortBreakSeconds + 15) * 1000
  /\ currentSession.stateStartTime
       <= currentSession.shortBreaksTaken[1] + (ShortBreakSeconds + 15) * 1000 + 30000
\* C17: when the long-break alarm of the live session is delivered while
\* the session is active, the tick loop is stopped and exactly one
\* statistics record is issued, with focusSeconds = the session's
\* elapsedTime, shortBreaks = its shortBreakCount and longBreaks = 1; when
\* the handler goes on, that session's state becomes longBreak and the tick
\* loop is still stopped.
C17_LongBreakAlarmEffects ==
  [][/\ HandleAlarm /\ isLongBreakAlarm(Head(inbox))
        /\ NameStartsWith(Head(inbox), currentSession.id)
        /\ currentSession.state = "active"
        => /\ ~timerInterval'
           /\ statsLog' = Append(statsLog,
                [sid |-> currentSession.id, focus |-> currentSession.elapsedTime,
                 short |-> currentSession.shortBreakCount, long |-> 1])
           /\ \E t \in BagToSet(tasks') :
                t.fn = "startLongBreak" /\ t.fromId = currentSession.id
     /\ \A t \in Suspended :
          LongBreakEnter(t)
          => /\ currentSession' = [currentSession EXCEPT
                                     !.state = "longBreak", !.stateStartTime = now]
             /\ currentSession.id = t.fromId
             /\ ~timerInterval'
             /\ statsLog' = statsLog]_vars

\* C18: ending a long break branches on autoStartNextSession. If it is true
\* the outcome is a new session with a new id, in state active, with its
\* alarms scheduled and the tick loop running; if it is false the outcome
\* is a fresh idle session with a new id and no alarm scheduled;
\* endLongBreak called while the state is not longBreak changes nothing.
C18_EndLongBreakBranches ==
  [][/\ \A t \in Suspended :
          t.h \in LongBreakEndCaller =>
            /\ EndLongBreakBranch(t)
                 => \E u \in BagToSet(tasks') :
                      /\ u.h = t.h
                      /\ u.fn = IF settings.autoStartNextSession
                                  THEN "startSession" ELSE "resetSession"
            /\ StartSessionCreate(t)
                 => /\ settings.autoStartNextSession
                    /\ currentSession'
                         = [createNewSession(currentSession'.id, now) EXCEPT
                              !.state = "active"]
                    /\ currentSession'.id \notin {currentSession.id, t.fromId}
            /\ StartSessionSchedule(t)
                 => /\ timerInterval'
                    /\ AlarmNames({a \in alarms' : a.sid = t.arg})
                         = ExpectedNames(t.arg, numberOfBreaks(settings.shortPeriodDuration))
            /\ ResetSessionCreate(t)
                 => /\ ~settings.autoStartNextSession
                    /\ currentSession' = createNewSession(currentSession'.id, now)
                    /\ currentSession'.id \notin {currentSession.id, t.fromId}
                    /\ alarms' = {}
     /\ /\ \/ NotificationClick
            \/ \E c \in BagToSet(timeouts) : LongBreakTimeout(c)
        /\ currentSession.state # "longBreak"
        => UNCHANGED <<currentSession, timerInterval, tickDue, alarms, tasks, stored,
                       statsLog, notifications>>]_vars

\* C19: a long break ends automatically. Whenever the session is in
\* longBreak, then with no user action it eventually leaves longBreak, also
\* when the background worker was unloaded and loaded again during the
\* long break.
C19_LongBreakEndsByItself ==
  (currentSession.state = "longBreak") ~> (currentSession.state # "longBreak")
\* C20: within one session id, elapsedTime is never negative, never
\* decreases, and changes only by +1, on a tick taken while the state is
\* active; it is frozen while the state is paused, shortBreak, longBreak or
\* idle.
C20_ElapsedTimeCountsActiveTicks ==
  /\ [](currentSession.elapsedTime >= 0)
  /\ [][currentSession'.id = currentSession.id =>
          \/ currentSession'.elapsedTime = currentSession.elapsedTime
          \/ /\ currentSession'.elapsedTime = currentSession.elapsedTime + 1
             /\ Tick
             /\ currentSession.state = "active"]_vars

\* A session that has ticked is paused and time has passed since
C20_TickedThenPaused ==
  /\ currentSession.elapsedTime >= 1
  /\ currentSession.state = "paused"
  /\ now > currentSession.stateStartTime
\* C21: a tick loop is armed exactly when the session is active. Whenever no
\* handler is in progress, the interval is armed if and only if the state
\* is active: none is armed while the state is idle, paused, shortBreak or
\* longBreak, and one is running whenever the state is active.
C21_TickLoopArmedIffActive ==
  tasks = EmptyBag /\ inbox = << >>
    => (timerInterval <=> currentSession.state = "active")
\* What one updateStatistics call makes of a bucket
Added(before, after, c) ==
  /\ after.totalFocusTime = before.totalFocusTime + c.focus
  /\ after.shortBreaksTaken = before.shortBreaksTaken + c.short
  /\ after.longBreaksTaken = before.longBreaksTaken + c.long
  /\ after.sessionsCompleted \in {before.sessionsCompleted, before.sessionsCompleted + 1}
  /\ after.sessionsCompleted = before.sessionsCompleted + 1 <=> c.long > 0

\* C22: updateStatistics(focus, shortBreaks, longBreaks) adds focus,
\* shortBreaks and longBreaks to the bucket of the day and to the bucket of
\* the week of the object it loaded, a bucket that is absent counting as
\* zero, and adds 1 to sessionsCompleted in both if and only if
\* longBreaks > 0.
C22_UpdateAddsToBothBuckets ==
  [][\A c \in BagToSet(statsCalls) :
       StatisticsSaved(c)
       => /\ c.day \in DOMAIN statistics'.dailyFocus
          /\ c.week \in DOMAIN statistics'.weeklyFocus
          /\ Added(Bucket(c.loaded.dailyFocus, c.day), statistics'.dailyFocus[c.day], c)
          /\ Added(Bucket(c.loaded.weeklyFocus, c.week), statistics'.weeklyFocus[c.week], c)]_vars

\* (125, 2, 0) and then (0, 0, 1) were recorded on the first day of use
C22_ExampleDayRecorded ==
  /\ statsCalls = EmptyBag
  /\ statsIssued = 2
  /\ DOMAIN statistics.dailyFocus = {today}
  /\ statistics.dailyFocus[today]
       = [totalFocusTime |-> 125, shortBreaksTaken |-> 2, longBreaksTaken |-> 1,
          sessionsCompleted |-> 1]
  /\ statistics.weeklyFocus[getWeekNumber(today)] = statistics.dailyFocus[today]
\* The keys kept of the keys all are the greatest ones, at most n of them
KeepsGreatest(kept, all, n) ==
  /\ kept \subseteq all
  /\ Cardinality(kept) = Min(n, Cardinality(all))
  /\ \A k \in kept : \A j \in all \ kept : k > j

\* C23: after every updateStatistics call the statistics hold at most 30
\* daily and at most 12 weekly buckets; the buckets kept are those with the
\* greatest keys, the oldest being dropped first, and the buckets kept that
\* the call did not add to keep their values.
C23_OnlyLatestBucketsKept ==
  /\ [](/\ Cardinality(DOMAIN statistics.dailyFocus) <= 30
        /\ Cardinality(DOMAIN statistics.weeklyFocus) <= 12)
  /\ [][\A c \in BagToSet(statsCalls) :
          StatisticsSaved(c)
          => /\ KeepsGreatest(DOMAIN statistics'.dailyFocus,
                              DOMAIN c.loaded.dailyFocus \cup {c.day}, 30)
             /\ KeepsGreatest(DOMAIN statistics'.weeklyFocus,
                              DOMAIN c.loaded.weeklyFocus \cup {c.week}, 12)
             /\ \A k \in DOMAIN statistics'.dailyFocus \ {c.day} :
                  statistics'.dailyFocus[k] = c.loaded.dailyFocus[k]
             /\ \A k \in DOMAIN statistics'.weeklyFocus \ {c.week} :
                  statistics'.weeklyFocus[k] = c.loaded.weeklyFocus[k]]_vars

\* After 29 days of use two more days were recorded: the first day of use
\* was dropped, the second is the oldest kept and has its value
C23_OldestDayDropped ==
  /\ Cardinality(DOMAIN statistics.dailyFocus) = 30
  /\ FirstDay + 1 \in DOMAIN statistics.dailyFocus
  /\ FirstDay - 29 \notin DOMAIN statistics.dailyFocus
  /\ FirstDay - 28 \in DOMAIN statistics.dailyFocus
  /\ statistics.dailyFocus[FirstDay - 28].totalFocusTime = 60
NotLess(before, after) ==
  /\ after.totalFocusTime >= before.totalFocusTime
  /\ after.shortBreaksTaken >= before.shortBreaksTaken
  /\ after.longBreaksTaken >= before.longBreaksTaken
  /\ after.sessionsCompleted >= before.sessionsCompleted

\* C24: within a daily or weekly bucket the stored totalFocusTime,
\* shortBreaksTaken, longBreaksTaken and sessionsCompleted never decrease,
\* however the updateStatistics calls (a load followed by a save each)
\* interleave.
C24_StoredTotalsNeverDecrease ==
  [][/\ \A k \in DOMAIN statistics.dailyFocus \cap DOMAIN statistics'.dailyFocus :
          NotLess(statistics.dailyFocus[k], statistics'.dailyFocus[k])
     /\ \A k \in DOMAIN statistics.weeklyFocus \cap DOMAIN statistics'.weeklyFocus :
          NotLess(statistics.weeklyFocus[k], statistics'.weeklyFocus[k])]_vars
\* What the claim expects of a numeric field: a number inside the bounds is
\* kept, anything else gives the default
KeptOrDefault(value, defaultValue, min, max) ==
  IF value.t = "number" /\ value.n >= min /\ value.n <= max
    THEN value.n
    ELSE defaultValue

\* C25: the settings the core reads are fully populated and in range. For
\* any stored object, each of shortPeriodDuration, shortBreakDuration,
\* longPeriodDuration and longBreakDuration that is missing, not a number
\* or outside its bounds (1-60, 5-60, 15-240, 1-60) is replaced by its
\* default (5, 10, 90, 20), a non-boolean autoStartNextSession becomes
\* false, values in range are kept, and validating a validated object
\* changes nothing.
C25_SettingsValidated ==
  [][/\ LoadSettings /\ storedSettings # NoSettings
          => settings' =
               [shortPeriodDuration |->
                  KeptOrDefault(storedSettings.shortPeriodDuration, 5, 1, 60),
                shortBreakDuration |->
                  KeptOrDefault(storedSettings.shortBreakDuration, 10, 5, 60),
                longPeriodDuration |->
                  KeptOrDefault(storedSettings.longPeriodDuration, 90, 15, 240),
                longBreakDuration |->
                  KeptOrDefault(storedSettings.longBreakDuration, 20, 1, 60),
                autoStartNextSession |->
                  IF storedSettings.autoStartNextSession.t = "boolean"
                    THEN storedSettings.autoStartNextSession.b ELSE FALSE]
     /\ LoadSettings /\ storedSettings = NoSettings
          => settings' = [shortPeriodDuration |-> 5, shortBreakDuration |-> 10,
                          longPeriodDuration |-> 90, longBreakDuration |-> 20,
                          autoStartNextSession |-> FALSE]
     /\ SaveSettings
          => storedSettings' = AsStored(settings)]_vars

\* C31: in every reachable state shortBreakCount is the length of
\* shortBreaksTaken, and the two change only when a short break is entered
\* (the count grows by one and one timestamp is appended, the session
\* keeping its id) or when start or reset replaces the session (the new
\* session has count zero and no timestamps).
C31_BreakCountInLockstep ==
  /\ [](currentSession.shortBreakCount = Len(currentSession.shortBreaksTaken))
  /\ [][(\/ currentSession'.shortBreakCount # currentSession.shortBreakCount
          \/ currentSession'.shortBreaksTaken # currentSession.shortBreaksTaken)
         => \/ /\ currentSession'.id = currentSession.id
               /\ currentSession'.state = "shortBreak"
               /\ currentSession'.shortBreakCount = currentSession.shortBreakCount + 1
               /\ Len(currentSession'.shortBreaksTaken) = Len(currentSession.shortBreaksTaken) + 1
               /\ SubSeq(currentSession'.shortBreaksTaken, 1, Len(currentSession.shortBreaksTaken))
                    = currentSession.shortBreaksTaken
            \/ /\ currentSession'.id # currentSession.id
               /\ currentSession'.shortBreakCount = 0
               /\ currentSession'.shortBreaksTaken = << >>]_vars

\* A session that took a short break was replaced by a new one, whose
\* count is zero again
C31_CountBackToZero ==
  /\ currentSession.id > 2
  /\ currentSession.shortBreakCount = 0 /\ currentSession.shortBreaksTaken = << >>
  /\ stored # << >> /\ stored[1].id = currentSession.id
  /\ \E i \in 1..Len(statsLog) : statsLog[i] = StatsCall(currentSession.id - 1, 0, 1, 0)

RECURSIVE SumOver(_, _, _)
\* The sum of one counter over the statistics updates issued for a session
SumOver(log, sid, field) ==
  IF log = << >> THEN 0
  ELSE (IF Head(log).sid = sid THEN Head(log)[field] ELSE 0) + SumOver(Tail(log), sid, field)

\* C32: for a session that has run from start to its long break, the focus
\* seconds added to the statistics on its behalf (minute flushes and the
\* long-break flush) sum to its elapsedTime, and the short breaks added
\* (one per short-break start and the long-break flush) sum to its
\* shortBreakCount.
C32_SessionCountedOnce ==
  (Quiescent /\ currentSession.state = "longBreak")
    => /\ SumOver(statsLog, currentSession.id, "focus") = currentSession.elapsedTime
       /\ SumOver(statsLog, currentSession.id, "short") = currentSession.shortBreakCount

\* C33: a session that is started and never reset eventually enters its
\* long break, provided every pause is eventually resumed; the long-break
\* alarm may fall due while the session is paused or in a short break.
C33_LongBreakEventuallyEntered ==
  (currentSession.state = "active") ~> (currentSession.state = "longBreak")

\* C34: no statistics update is lost when updates overlap: the save that
\* completes an update leaves each counter of the update's day bucket at
\* the value storage held just before plus the update's delta, so two
\* overlapping updates add the sum of their deltas.
C34_OverlappingUpdatesBothCounted ==
  [][\A c \in BagToSet(statsCalls) :
        StatisticsSaved(c) =>
          LET before == Bucket(statistics.dailyFocus, c.day)
              after == Bucket(statistics'.dailyFocus, c.day)
          IN /\ after.totalFocusTime = before.totalFocusTime + c.focus
             /\ after.shortBreaksTaken = before.shortBreaksTaken + c.short
             /\ after.longBreaksTaken = before.longBreaksTaken + c.long]_vars

\* C35: a short break ends also when the worker is unloaded and loaded
\* again during it: the session in shortBreak is eventually active again
\* under the same id with the tick loop armed, so that elapsedTime goes on
\* advancing.
C35_ShortBreakSurvivesReload ==
  (currentSession.state = "shortBreak")
    ~> (currentSession.state = "active" /\ currentSession.id = 1 /\ timerInterval)

\* C36: the interval callback flushes 60 focus seconds only for the session
\* it ticked, live and with elapsedTime at a positive multiple of 60: when
\* start or reset has replaced the session while the callback's write was
\* in flight, the callback records nothing.
C36_NoFlushForReplacedSession ==
  [][\A t \in Suspended :
        TickSaved(t) =>
          /\ currentSession.id # t.fromId => statsLog' = statsLog
          /\ statsLog' # statsLog
               => currentSession.elapsedTime > 0 /\ currentSession.elapsedTime % 60 = 0]_vars

\* C37: after any interleaving of start and reset requests, once every
\* handler has completed, every alarm still scheduled carries the id of the
\* live session, and a live session that is active has its short-break
\* alarms and its long-break alarm scheduled.
C37_AlarmsBelongToLiveSession ==
  Quiescent =>
    /\ \A a \in alarms : a.sid = currentSession.id
    /\ currentSession.state = "active"
         => ExpectedNames(currentSession.id, numberOfBreaks(settings.shortPeriodDuration))
              \subseteq AlarmNames(alarms)

\* C38: when showNotification, updateStatistics or the write of the session
\* rejects while a short break is being started and the live session is in shortBreak as
\* the rejection is handled, the session is set back to active with all
\* its other fields kept, the handler is over, and the write of that state
\* is issued: it is what storage holds unless that write is rejected too,
\* and then storage is left as it was. A notification that could not be
\* shown is no error of startShortBreak: the break goes on in shortBreak.
C38_FailedBreakGoesBackToActive ==
  [][\A t \in Suspended :
       /\ \A ok \in BOOLEAN :
            /\ \/ ShortBreakNotifyRejected(t, ok)
               \/ ShortBreakStatsRejected(t, ok)
               \/ ShortBreakWriteCaught(t, ok)
            /\ currentSession.state = "shortBreak"
            => /\ currentSession' = [currentSession EXCEPT
                                       !.state = "active", !.stateStartTime = now]
               /\ stored' = IF ok THEN <<currentSession'>> ELSE stored
               /\ t \notin BagToSet(tasks')
       /\ ShortBreakNotificationFailed(t)
            => /\ currentSession' = currentSession
               /\ [t EXCEPT !.pc = "stats"] \in BagToSet(tasks')]_vars

\* The write of a session in its first short break was rejected, and the
\* session is active again in the millisecond the break began, written as
\* such, with no break end armed
C38_BackToActiveAfterRejectedWrite ==
  /\ writeFailures = 1
  /\ tasks = EmptyBag
  /\ currentSession.state = "active"
  /\ currentSession.shortBreakCount = 1
  /\ currentSession.stateStartTime = currentSession.shortBreaksTaken[1]
  /\ stored = <<currentSession>>
  /\ \A c \in BagToSet(timeouts) : c.kind # "shortBreakEnd"

\* C38 as stated: whichever of the notification, the statistics update or
\* the write of the session fails during the start of a short break, the
\* session goes back to active with the same id and that state is stored.
C38_AnyFailureGoesBackToActive ==
  [][\A t \in Suspended :
       /\ \/ ShortBreakNotificationFailed(t)
          \/ \E ok \in BOOLEAN :
               \/ ShortBreakNotifyRejected(t, ok)
               \/ ShortBreakStatsRejected(t, ok)
               \/ ShortBreakWriteCaught(t, ok)
       /\ currentSession.state = "shortBreak"
       => /\ currentSession'.state = "active"
          /\ currentSession'.id = currentSession.id
          /\ stored' = <<currentSession'>>]_vars

\* C39: at most one tick loop is armed at any time, whatever the sequence
\* of start, resume, a second initialization and break ends: no interval is
\* armed besides the one timerInterval refers to; so a step that counts
\* time adds one second to elapsedTime of the session, and no armed
\* interval fires again before a tick period has passed.
C39_OneTickLoop ==
  /\ [](strayIntervals = << >>)
  /\ [][/\ currentSession'.id = currentSession.id
        /\ currentSession'.elapsedTime # currentSession.elapsedTime
        => /\ currentSession'.elapsedTime = currentSession.elapsedTime + 1
           /\ timerInterval' /\ tickDue' >= now + TIMER_UPDATE_INTERVAL
           /\ \A i \in DOMAIN strayIntervals' :
                strayIntervals'[i] >= now + TIMER_UPDATE_INTERVAL]_vars

\* The worker was initialized a second time while its session runs, and
\* the session has counted time on the one interval that is armed
C39_CountingAfterSecondInit ==
  /\ listeners = 2
  /\ tasks = EmptyBag
  /\ currentSession.state = "active" /\ currentSession.elapsedTime >= 1
  /\ timerInterval /\ tickDue = now + TIMER_UPDATE_INTERVAL
  /\ strayIntervals = << >>

\* C40: for every shortPeriodDuration in 1..60 and every choice of random
\* offsets, two consecutive break times of generateRandomBreakTimes, as the
\* short-break alarms of a session carry them, are more than 65 seconds
\* apart: the longest short break of 60 s plus the 5 s of its failsafe.
C40_BreaksMoreThan65sApart ==
  settings.shortPeriodDuration <= 60 =>
    \A a \in alarms : \A b \in ShortAlarms(alarms, a.sid) :
      (isShortBreakAlarm(AlarmName(a)) /\ b.idx = a.idx + 1)
        => b.when - a.when > (MaxShortBreakSeconds + FailsafeGraceSeconds) * 1000

\* A session of 60 minutes has its twelve short-break alarms, the first
\* with the latest offset and the second with the earliest
C40_TwelveBreaksClosest ==
  /\ settings.shortPeriodDuration = 60
  /\ Cardinality(ShortAlarms(alarms, currentSession.id)) = 12
  /\ \E a, b \in ShortAlarms(alarms, currentSession.id) :
       /\ a.idx = 0 /\ b.idx = 1
       /\ b.when - a.when < (60 * 60 * 1000) \div 13

====
